---- MODULE Spec2Model ----
(***************************************************************************)
(* Gemini_Voice_RAG: the tool-execution engine of src/final_tool.py        *)
(* (execute_tool_calls and its helpers) and the session orchestrator of    *)
(* src/final.py (AudioLoop: the task group started by run(), the bounded   *)
(* outbound queue, the inbound playback queue and the ai_speaking flag).   *)
(*                                                                         *)
(* Strings are sequences of word tokens; a template is a sequence of       *)
(* pieces, each a literal token or a {placeholder}.                        *)
(***************************************************************************)
EXTENDS Naturals, Sequences, FiniteSets, TLC

VARIABLES
    \* ---- execute_tool_calls (src/final_tool.py) ----
    tool_calls,       \* the function_call parts of the response, in order
    history,          \* the conversation history handed to the engine
    idx,              \* position of the for loop over tool_calls
    pending_params,   \* tool name -> [missing, args]
    static_texts,     \* texts of the static calls executed so far
    summary_items,    \* [name, type, content] of the calls executed so far
    all_static,       \* the all_static flag
    ret,              \* what execute_tool_calls returned: [status, value]
    http_calls,       \* requests.get/post/request calls issued for the batch
    aux_calls,        \* client.models.generate_content calls issued by tools
    rag_calls,        \* the queries handed to run_rag for the batch
    resolved,         \* per call of the batch: what its loop iteration left
    registry,         \* the module global USER_TOOLS, as the session holds it
    \* ---- AudioLoop (src/final.py) ----
    task,             \* status of every task of the TaskGroup
    pc,               \* the await each task is suspended at
    run_state,        \* where run() is
    reported,         \* traceback.print_exception(EG) has run
    audio_stream,     \* self.audio_stream, the capture stream
    out_stream,       \* the output stream opened by play_audio
    out_queue,        \* self.out_queue = asyncio.Queue(maxsize=5)
    held,             \* the item a producer suspended in put() still holds
    sent,             \* what has been written to the session, in order
    next_id,          \* number of the next outbound message
    ai_speaking,      \* self.ai_speaking
    audio_in_queue,   \* self.audio_in_queue = asyncio.Queue()
    next_chunk,       \* number of the next inbound audio chunk
    boundary,         \* last chunk received before the latest turn completion
    played,           \* the chunks handed to stream.write, in order
    put_speaking,     \* the frames listen_audio enqueued while ai_speaking
    \* ---- receive_audio's tool-call branch (src/final.py) ----
    tool_call,        \* function_calls of the tool-call event being handled
    fc_pos,           \* position of the for loop over the function calls
    tool_responses,   \* FunctionResponses sent for that event, in order
    events_seen,      \* number of tool-call events received so far
    \* ---- chatbot, after execute_tool_calls (src/final_tool.py) ----
    chat,             \* where the chatbot is with the turn
    answer,           \* what the chatbot printed for the turn
    summary_calls,    \* summarization generate_content calls of the turn
    \* ---- one iteration of "fill required params" (src/final_tool.py) ----
    cur_param,        \* param: the required parameter being resolved
    cur_args,         \* args: parse_fc_args(fc) of the call
    auto_value,       \* what extract_value_from_history returned, if called
    final_arg,        \* final_args[param] after the iteration
    param_missing,    \* param was appended to missing
    fill_pc,          \* whether the iteration has run
    \* ---- convert_workflow_to_user_tools (src/final_tool.py) ----
    integrations,     \* workflow_config["integrations"]
    user_tools,       \* the dictionary the conversion builds
    load_pos,         \* position of the for loop over integrations
    load_state,       \* where the conversion is
    \* ---- receive_audio's transcription display (src/final.py) ----
    last_speaker,     \* self.last_speaker
    display,          \* what receive_audio has printed, in order
    \* ---- call_custom_api on its own (src/final_tool.py) ----
    api_tool,         \* tool: the definition handed to call_custom_api
    api_args,         \* args: the arguments handed to it
    api_sent,         \* the HTTP requests it has issued
    api_result,       \* what it returned
    api_pc,           \* whether it has been called
    \* ---- query routing (src/query_router.py, master_router.py) ----
    router,           \* which router handles the query
    aux_reply,        \* what the classification generate_content call did
    classification,   \* what classify_query / classify_intent returned
    invoked,          \* the handlers the router has invoked, in order
    route_ret,        \* the "intent" of the response the router returned
    route_pc,         \* where the router is
    \* ---- the chatbot loop and trim_history_blocks (src/final_tool.py) ----
    loop_pc,          \* where the chatbot loop is
    iterations,       \* iterations of the loop started so far
    trim_n,           \* max_users handed to trim_history_blocks
    trimmed,          \* the results of applying it once, then again
    \* ---- the file-playback client (src/static.py) ----
    audio_file_path,  \* self.audio_file_path, as main() handed it over
    file_sent,        \* self.file_sent
    file_pc,          \* where send_audio_file is
    chunks_left,      \* chunks of pcm_data still to send
    text_pc,          \* where send_text is
    texts_sent,       \* texts send_text has written to the session
    static_run,       \* where run() of the client is
    \* ---- GeneralToolsHandler (src/routing_system/handlers/general_tools.py)
    gen_call,         \* fc: the function call receive_audio hands over
    gen_outcome,      \* what the network does to the request, if one is made
    gen_result,       \* result: what handle returned
    gen_responses,    \* the FunctionResponses receive_audio sent for it
    gen_pc,           \* where the handling of the call is
    \* ---- dynamic_api_call (src/test4.py) ----
    dyn_call,         \* function_name and kwargs of the call
    dyn_outcome,      \* what the network does to the request, if one is made
    dyn_result,       \* the dictionary dynamic_api_call returned
    dyn_pc,           \* whether it has been called
    \* ---- EnhancedVoiceDetector (src/voice_detector_enhanced.py) ----
    vad_pc,           \* where main() is
    is_recording,     \* self.is_recording
    audio_frames,     \* self.audio_frames: the numbers of the chunks buffered
    speech_detected,  \* self.speech_detected
    last_speech_time, \* self.last_speech_time
    clock,            \* time.time()
    heard,            \* every chunk read so far: [speech, at]
    auto_stopped,     \* the loop was left by the silence branch
    vad_stream,       \* self.stream: None or the stream object
    stream_calls      \* the calls made on the stream object, in order

toolVars == <<tool_calls, history, idx, pending_params, static_texts,
              summary_items, all_static, ret, http_calls, aux_calls,
              rag_calls, resolved, registry>>

audioVars == <<task, pc, run_state, reported, audio_stream, out_stream,
               out_queue, held, sent, next_id, ai_speaking, audio_in_queue,
               next_chunk, boundary, played, put_speaking>>

callVars == <<tool_call, fc_pos, tool_responses, events_seen>>

\* what an action of the engine, or of a session task, leaves alone
chatVars == <<chat, answer, summary_calls>>

fillVars == <<cur_param, cur_args, auto_value, final_arg, param_missing, fill_pc>>

loadVars == <<integrations, user_tools, load_pos, load_state>>

\* the state of the components added around the engine and the session
dispVars == <<last_speaker, display>>

apiVars == <<api_tool, api_args, api_sent, api_result, api_pc>>

routeVars == <<router, aux_reply, classification, invoked, route_ret, route_pc>>

loopVars == <<loop_pc, iterations, trim_n, trimmed>>

staticVars == <<audio_file_path, file_sent, file_pc, chunks_left, text_pc,
                texts_sent, static_run>>

genVars == <<gen_call, gen_outcome, gen_result, gen_responses, gen_pc>>

dynVars == <<dyn_call, dyn_outcome, dyn_result, dyn_pc>>

vadVars == <<vad_pc, is_recording, audio_frames, speech_detected,
             last_speech_time, clock, heard, auto_stopped, vad_stream,
             stream_calls>>

\* the components that are modelled on their own
extraVars == <<loopVars, staticVars, genVars, dynVars, vadVars>>

\* everything but those components
coreVars == <<toolVars, audioVars, callVars, chatVars, fillVars, loadVars,
              dispVars, apiVars, routeVars>>

outsideLoop == <<coreVars, staticVars, genVars, dynVars, vadVars>>
outsideStatic == <<coreVars, loopVars, genVars, dynVars, vadVars>>
outsideGeneral == <<coreVars, loopVars, staticVars, dynVars, vadVars>>
outsideDynamic == <<coreVars, loopVars, staticVars, genVars, vadVars>>
outsideDetector == <<coreVars, loopVars, staticVars, genVars, dynVars>>

restVars == <<loadVars, dispVars, apiVars, routeVars, extraVars>>

outsideEngine == <<audioVars, callVars, chatVars, fillVars, restVars>>
outsideSession == <<toolVars, callVars, chatVars, fillVars, restVars>>

vars == <<toolVars, audioVars, callVars, chatVars, fillVars, restVars>>

-----------------------------------------------------------------------------
(* Bounds of the model *)

MaxBatch == 2
MaxMsgs == 6
MaxChunks == 4
MaxCalls == 2
MaxEvents == 2
MaxHist == 2

-----------------------------------------------------------------------------
(* Sequence helpers *)

Range(s) == {s[i] : i \in 1..Len(s)}

RECURSIVE Flatten(_)
Flatten(ss) == IF ss = <<>> THEN <<>> ELSE Head(ss) \o Flatten(Tail(ss))

\* a join that puts nothing between the items
JoinNoSep(sep, ss) == Flatten(ss)

\* str.join: the items of ss with sep between consecutive items
RECURSIVE Join(_, _)
Join(sep, ss) ==
    IF ss = <<>> THEN <<>>
    ELSE IF Len(ss) = 1 THEN Head(ss)
    ELSE Head(ss) \o sep \o Join(sep, Tail(ss))

\* str.strip() on a text: leading and trailing whitespace tokens go
Whitespace == {" ", "\n", "\n\n"}

RECURSIVE LStrip(_)
LStrip(text) ==
    IF text # <<>> /\ Head(text) \in Whitespace THEN LStrip(Tail(text))
    ELSE text

RECURSIVE RStrip(_)
RStrip(text) ==
    IF text # <<>> /\ text[Len(text)] \in Whitespace
    THEN RStrip(SubSeq(text, 1, Len(text) - 1))
    ELSE text

Strip(text) == LStrip(RStrip(text))

\* str.format(**args) on a template: a placeholder with no matching key
\* raises KeyError
Lit(s) == [ph |-> FALSE, s |-> s]
Ph(s) == [ph |-> TRUE, s |-> s]

FormatRaises(template, args) ==
    \E i \in 1..Len(template) :
        template[i].ph /\ template[i].s \notin DOMAIN args

Format(template, args) ==
    Flatten([i \in 1..Len(template) |->
                IF template[i].ph THEN args[template[i].s]
                ELSE <<template[i].s>>])

-----------------------------------------------------------------------------
(* The registry: USER_TOOLS as convert_workflow_to_user_tools builds it    *)
(* from WORKFLOW_CONFIG (one tool of every shape of the configuration).    *)

NoTemplate == <<>>

Tool(type, required, properties, api_url, http_method, prompt_template, has_template, response_text) ==
    [type |-> type, required |-> required, properties |-> properties,
     api_url |-> api_url, http_method |-> http_method,
     prompt_template |-> prompt_template, has_template |-> has_template,
     response_text |-> response_text]

USER_TOOLS ==
    [food_suggestion_tool |->
        Tool("prompt", <<"location", "time_of_day">>,
             {"location", "time_of_day"}, NoTemplate, "GET",
             <<Lit("expert"), Ph("location"), Ph("time_of_day"),
               Ph("user_info")>>, TRUE, <<>>),
     get_weather_tool |->
        Tool("api", <<"location">>, {"location", "unit"},
             <<Lit("open-meteo/forecast")>>, "GET", NoTemplate, FALSE, <<>>),
     crypto_api |->
        Tool("api", <<"coin">>, {"coin"},
             <<Lit("coingecko/price?ids="), Ph("coin")>>, "GET",
             NoTemplate, FALSE, <<>>),
     quote_api |->
        Tool("api", <<>>, {}, <<Lit("quotable/random")>>, "GET",
             NoTemplate, FALSE, <<>>),
     cloth_combination |->
        Tool("static", <<>>, {}, NoTemplate, "GET", NoTemplate, FALSE,
             <<"wear", "light", "color", "clothes">>),
     schedule_meeting |->
        Tool("static", <<"attendee_email", "topic", "duration_minutes">>,
             {"attendee_email", "topic", "duration_minutes"}, NoTemplate,
             "GET",
             <<Lit("scheduled"), Ph("duration_minutes"), Lit("minute"),
               Ph("attendee_email"), Lit("on"), Ph("topic")>>, TRUE, <<>>),
     motivation_tool |->
        Tool("prompt", <<"topic">>, {"topic"}, NoTemplate, "GET",
             <<Lit("motivate"), Ph("topic")>>, TRUE, <<>>),
     rag_tool |->
        Tool("rag", <<"user_query">>, {"user_query"}, NoTemplate, "GET",
             NoTemplate, FALSE, <<>>)]

ToolNames == DOMAIN USER_TOOLS

\* a name the model may call that the registry does not hold
UnknownTool == "no_such_tool"

-----------------------------------------------------------------------------
(* convert_workflow_to_user_tools: the registry built from a configuration *)

MaxCfg == 2

\* dict.get(key, default)
Get(d, key, default) == IF key \in DOMAIN d THEN d[key] ELSE default

\* a {{variable}} of a response_prompt, as the frontend writes it
DoubleBraced(s) == [ph |-> FALSE, s |-> s, braces |-> 2]

\* \w+: the text between the braces is letters, digits and underscores;
\* of the texts the configurations here use, these are not
NotWords == {" tone ", "first-name"}
IsWord(s) == s \notin NotWords

\* a substitution that turns every double-braced text into a placeholder
UnbraceAnyText(template) ==
    [i \in 1..Len(template) |->
        IF "braces" \in DOMAIN template[i] THEN Ph(template[i].s)
        ELSE template[i]]

\* re.sub(r'\{\{(\w+)\}\}', r'{\1}', response_prompt)
Unbrace(template) ==
    [i \in 1..Len(template) |->
        IF "braces" \in DOMAIN template[i] /\ IsWord(template[i].s)
        THEN Ph(template[i].s)
        ELSE template[i]]

\* tool_name.lower().replace(" ", "_") on the names of TestIntegrations
Sanitize(tool_name) ==
    CASE tool_name = "Get Price" -> "get_price"
      [] tool_name = "Crypto Price" -> "crypto_price"
      [] tool_name = "Weather" -> "weather"
      [] tool_name = "Motivation" -> "motivation"
      [] tool_name = "Other" -> "other"
      [] OTHER -> tool_name

\* descriptors of the shapes a frontend configuration can hold: complete
\* ones, and ones with a field left out
TestIntegrations ==
    {[tool_id |-> "crypto_api", tool_name |-> "Crypto Price", type |-> "api",
      url |-> "https://x/{coin}", method |-> "GET",
      input_parameters |-> <<[name |-> "coin", required |-> TRUE]>>],
     [tool_id |-> "weather_api", tool_name |-> "Weather", type |-> "api"],
     [tool_id |-> "motivation_tool", tool_name |-> "Motivation",
      type |-> "prompt"],
     [tool_id |-> "motivation_tool", tool_name |-> "Motivation",
      response_prompt |-> <<Lit("motivate"), DoubleBraced("topic")>>,
      input_parameters |-> <<[name |-> "topic", required |-> TRUE],
                             [name |-> "tone"]>>],
     [type |-> "static", response_text |-> "hello"],
     [tool_name |-> "Get Price", url |-> "https://y/"],
     [tool_id |-> "crypto_api", tool_name |-> "Other", type |-> "static",
      response_text |-> "hi"],
     [tool_id |-> "greeting", response_text |-> "hello there"],
     [tool_id |-> "plain", tool_name |-> "Other"],
     [tool_id |-> "schedule_meeting", type |-> "static",
      response_prompt |-> <<Lit("scheduled"), DoubleBraced("duration_minutes"),
                            DoubleBraced("attendee_email"),
                            DoubleBraced("first-name")>>,
      input_parameters |-> <<[name |-> "attendee_email", required |-> TRUE],
                             [name |-> "note", required |-> FALSE],
                             [name |-> "duration_minutes", required |-> TRUE]>>],
     [tool_id |-> "rag_tool", type |-> "rag", url |-> "https://z/",
      input_parameters |-> <<[name |-> "user_query", required |-> TRUE]>>],
     [tool_id |-> "both", type |-> "static", response_text |-> "",
      response_prompt |-> <<DoubleBraced("topic")>>]}

Configs == UNION {[1..n -> TestIntegrations] : n \in 0..MaxCfg}

\* tool_key = tool_id if tool_id else tool_name.lower().replace(" ", "_")
tool_key_of(integration) ==
    IF Get(integration, "tool_id", "") # ""
    THEN integration.tool_id
    ELSE Sanitize(Get(integration, "tool_name", ""))

\* an inference in which a url makes the tool an api tool whatever type
\* the descriptor declares
tool_type_url_first(integration) ==
    IF Get(integration, "url", "") # "" THEN "api"
    ELSE IF Get(integration, "type", "") # "" THEN integration.type
    ELSE IF Get(integration, "response_text", "") # "" THEN "static"
    ELSE IF Get(integration, "response_prompt", <<>>) # <<>> THEN "prompt"
    ELSE "static"

\* the declared type, else inferred from url / response_text /
\* response_prompt, else "static"
tool_type_of(integration) ==
    IF Get(integration, "type", "") # "" THEN integration.type
    ELSE IF Get(integration, "url", "") # "" THEN "api"
    ELSE IF Get(integration, "response_text", "") # "" THEN "static"
    ELSE IF Get(integration, "response_prompt", <<>>) # <<>> THEN "prompt"
    ELSE "static"

\* parameters_schema: every input parameter is a property, the ones marked
\* required are listed under "required" when there is one
parameters_schema_of(integration) ==
    LET input_params == Get(integration, "input_parameters", <<>>)
        properties == {input_params[i].name : i \in 1..Len(input_params)}
        required_params ==
            SelectSeq([i \in 1..Len(input_params) |-> input_params[i]],
                      LAMBDA param : Get(param, "required", FALSE))
        names == [i \in 1..Len(required_params) |-> required_params[i].name]
    IN IF names # <<>>
       THEN [type |-> "object", properties |-> properties, required |-> names]
       ELSE [type |-> "object", properties |-> properties]

\* d1 | d2 of two dictionaries, d2's keys winning
Updated(d1, d2) ==
    [k \in DOMAIN d1 \cup DOMAIN d2 |-> IF k \in DOMAIN d2 THEN d2[k] ELSE d1[k]]

\* the type-specific fields of tool_entry
type_fields_of(integration, tool_type) ==
    CASE tool_type = "api" ->
           Updated([api_url |-> Get(integration, "url", "")],
                   IF Get(integration, "method", "") # ""
                   THEN [http_method |-> integration.method] ELSE <<>>)
      [] tool_type = "prompt" ->
           [prompt_template |->
               Unbrace(Get(integration, "response_prompt", <<>>))]
      [] tool_type = "static" ->
           IF "response_text" \in DOMAIN integration
           THEN [response_text |-> integration.response_text]
           ELSE IF "response_prompt" \in DOMAIN integration
           THEN [prompt_template |-> Unbrace(integration.response_prompt)]
           ELSE <<>>
      [] OTHER -> <<>>

tool_entry_of(integration) ==
    Updated([tool_name |-> tool_key_of(integration),
             type |-> tool_type_of(integration),
             parameters |-> parameters_schema_of(integration)],
            type_fields_of(integration, tool_type_of(integration)))

\* user_tools[tool_key] = tool_entry
Store(d, key, entry) == Updated(d, [k \in {key} |-> entry])

\* the conversion is not part of the run
LoadIdle ==
    /\ integrations = <<>>
    /\ user_tools = <<>>
    /\ load_pos = 1
    /\ load_state = "not_started"

\* convert_workflow_to_user_tools(workflow_config) is entered
LoadInit ==
    /\ integrations \in Configs
    /\ user_tools = <<>>
    /\ load_pos = 1
    /\ load_state = "converting"

\* one iteration of `for integration in integrations`: nothing is tested,
\* the entry is built from whatever the descriptor holds and stored
ConvertIntegration ==
    /\ load_state = "converting"
    /\ load_pos <= Len(integrations)
    /\ user_tools' = Store(user_tools, tool_key_of(integrations[load_pos]),
                            tool_entry_of(integrations[load_pos]))
    /\ load_pos' = load_pos + 1
    /\ UNCHANGED <<integrations, load_state>>
    /\ UNCHANGED <<toolVars, audioVars, callVars, chatVars, fillVars, dispVars, apiVars, routeVars, extraVars>>

\* return user_tools
ConvertReturn ==
    /\ load_state = "converting"
    /\ load_pos > Len(integrations)
    /\ load_state' = "loaded"
    /\ UNCHANGED <<integrations, user_tools, load_pos>>
    /\ UNCHANGED <<toolVars, audioVars, callVars, chatVars, fillVars, dispVars, apiVars, routeVars, extraVars>>

-----------------------------------------------------------------------------
(* Conversation history and extract_value_from_history                     *)

Turn(role, parts) == [role |-> role, parts |-> parts]

\* a text is a sequence of symbols: words and the blanks between them, or
\* single characters where a claim needs them
Words(ws) == Join(<<" ">>, [i \in 1..Len(ws) |-> <<ws[i]>>])

\* str.lower() on a symbol
Lower(t) ==
    CASE t = "Location" -> "location"
      [] t = "Rome" -> "rome"
      [] t = "A" -> "a"
      [] t = "B" -> "b"
      [] t = "D" -> "d"
      [] OTHER -> t

LowerAll(text) == [i \in 1..Len(text) |-> Lower(text[i])]

\* the symbols of a parameter name: a name is one word, except the names
\* that are spelled out in characters
NameText(param) ==
    CASE param = "ab" -> <<"a", "b">>
      [] param = "Ab" -> <<"A", "b">>
      [] OTHER -> <<param>>

\* the histories execute_tool_calls is tried on; a part with no text (a
\* function_call part) is the empty sequence and is skipped, as `if t:` does
Histories ==
    { <<>>,
      <<Turn("user", <<Words(<<"weather", "in", "Rome", "Location", "surat">>)>>)>>,
      <<Turn("user", <<Words(<<"price", "of", "coin">>)>>),
        Turn("model", <<Words(<<"topic", "sports">>), <<>> >>)>>,
      <<Turn("user", <<Words(<<"location", "pune">>)>>),
        Turn("model", << <<>> >>),
        Turn("user", << <<"my">>, <<"location">> >>)>> }

NotFound == [found |-> FALSE, value |-> <<>>]

\* " ".join(text_parts).lower() of one history item
Content(item) ==
    LowerAll(Join(<<" ">>, SelectSeq(item.parts, LAMBDA t : t # <<>>)))

\* sub stands in text at position i
OccursAt(sub, text, i) ==
    /\ i + Len(sub) - 1 <= Len(text)
    /\ SubSeq(text, i, i + Len(sub) - 1) = sub

\* `param_lower in content`
Contains(sub, text) == \E i \in 1..(Len(text) + 1) : OccursAt(sub, text, i)

LastIndex(sub, content) ==
    CHOOSE i \in 1..(Len(content) + 1) :
        /\ OccursAt(sub, content, i)
        /\ \A j \in (i + 1)..(Len(content) + 1) : ~OccursAt(sub, content, j)

FirstIndex(sub, content) ==
    CHOOSE i \in 1..(Len(content) + 1) :
        /\ OccursAt(sub, content, i)
        /\ \A j \in 1..(i - 1) : ~OccursAt(sub, content, j)

\* content.split(param_lower, 1)[-1].strip()
TailAfter(sub, content) ==
    Strip(SubSeq(content, FirstIndex(sub, content) + Len(sub), Len(content)))

RECURSIVE ScanHistory(_, _, _)
ScanHistory(param_lower, hist, k) ==
    IF k = 0 THEN NotFound
    ELSE LET item == hist[k]
             content == Content(item)
         IN IF item.role # "user" THEN ScanHistory(param_lower, hist, k - 1)
            ELSE IF content = <<>> THEN ScanHistory(param_lower, hist, k - 1)
            ELSE IF Contains(param_lower, content)
                    /\ TailAfter(param_lower, content) # <<>>
                 THEN [found |-> TRUE,
                       value |-> TailAfter(param_lower, content)]
            ELSE ScanHistory(param_lower, hist, k - 1)

extract_value_from_history(param, hist) ==
    ScanHistory(LowerAll(NameText(param)), hist, Len(hist))

-----------------------------------------------------------------------------
(* Parameter resolution of one call (the "fill required params" loop)      *)

\* the value the model supplies for a parameter it fills in
ModelValue(p) == <<"m", p>>

parse_fc_args(fc) == fc.args

\* a value of the args dict is a text; a value that is not a str is the
\* one symbol that names it
PyInt0 == <<"int:0">>
PyInt30 == <<"int:30">>
PyFalse == <<"bool:False">>
PyTrue == <<"bool:True">>

\* the values bool() is False for: "", 0, False
Falsy == {<<>>, PyInt0, PyFalse}

\* args.get(param) is truthy
Supplied(args, param) == param \in DOMAIN args /\ args[param] \notin Falsy

ResolveParam(param, args, hist) ==
    IF Supplied(args, param) THEN args[param]
    ELSE IF extract_value_from_history(param, hist).found
         THEN extract_value_from_history(param, hist).value
    ELSE <<>>

IsMissing(param, args, hist) ==
    /\ ~Supplied(args, param)
    /\ ~extract_value_from_history(param, hist).found

\* a loop that also keeps every argument the model supplied
final_args_with_supplied(tool_def, args, hist) ==
    [p \in Range(tool_def.required) \cup DOMAIN args |->
        IF p \in Range(tool_def.required) THEN ResolveParam(p, args, hist)
        ELSE args[p]]

final_args_of(tool_def, args, hist) ==
    [p \in Range(tool_def.required) |-> ResolveParam(p, args, hist)]

missing_of(tool_def, args, hist) ==
    SelectSeq(tool_def.required, LAMBDA p : IsMissing(p, args, hist))

\* the parameters, argument values and histories one iteration of the loop
\* is tried on
TestParams == {"ab", "Ab", "please"}

TestValues == {<<>>, <<"x">>, PyInt0, PyInt30, PyFalse, PyTrue}

TestArgs(p) == {<<>>} \cup {[q \in {p} |-> v] : v \in TestValues}

TestParts ==
    { <<Words(<<"weather", "in", "rome", "please", "today">>)>>,
      << <<"c", "a", "b", " ", "d">> >>,
      << <<"A", "B", " ", "D", " ">> >>,
      << <<"a", "b">> >>,
      << <<"a", "b", " ", "a", "b", " ", "e">> >>,
      << <<"d", " ", "e">> >>,
      << <<"a">>, <<"b", " ", "d">> >>,
      << <<>>, <<"e", "a", "b", "d">> >> }

TestHistories ==
    UNION {[1..n -> {Turn(r, ps) : r \in {"user", "model"}, ps \in TestParts}] :
              n \in 0..MaxHist}

NotCalled == [called |-> FALSE, found |-> FALSE, value |-> <<>>]

Called(r) == [called |-> TRUE, found |-> r.found, value |-> r.value]

\* no iteration is being followed
FillIdle ==
    /\ cur_param = "location"
    /\ cur_args = <<>>
    /\ auto_value = NotCalled
    /\ final_arg = <<>>
    /\ param_missing = FALSE
    /\ fill_pc = "idle"

\* one iteration of `for param in required_params` is about to run
FillInit ==
    /\ cur_param \in TestParams
    /\ cur_args \in TestArgs(cur_param)
    /\ auto_value = NotCalled
    /\ final_arg = <<>>
    /\ param_missing = FALSE
    /\ fill_pc = "start"

\* extract_value_from_history(param, history) called on its own
ExtractValue ==
    /\ fill_pc = "start"
    /\ auto_value' = Called(extract_value_from_history(cur_param, history))
    /\ fill_pc' = "extracted"
    /\ UNCHANGED <<cur_param, cur_args, final_arg, param_missing>>
    /\ UNCHANGED <<toolVars, audioVars, callVars, chatVars, restVars>>

\* the iteration: the supplied value if truthy, else the value found in
\* history if truthy, else "" and the parameter is missing
FillParam ==
    /\ fill_pc = "start"
    /\ auto_value' = IF Supplied(cur_args, cur_param) THEN NotCalled
                     ELSE Called(extract_value_from_history(cur_param, history))
    /\ final_arg' = ResolveParam(cur_param, cur_args, history)
    /\ param_missing' = IsMissing(cur_param, cur_args, history)
    /\ fill_pc' = "filled"
    /\ UNCHANGED <<cur_param, cur_args>>
    /\ UNCHANGED <<toolVars, audioVars, callVars, chatVars, restVars>>

-----------------------------------------------------------------------------
(* Tool helpers: call_custom_api, handle_prompt_tool, static rendering     *)

\* what the network / the auxiliary model may do to one request
ApiOutcomes == {"ok", "transport_error", "parse_error"}
PromptOutcomes == {"ok", "failure"}

\* call_custom_api: the url is formatted before the try block, so a
\* placeholder with no argument raises out of the helper; a transport or
\* resp.json() failure inside the try block becomes {"error": str(exc)}
call_custom_api(tool, args, outcome) ==
    IF FormatRaises(tool.api_url, args)
    THEN [raised |-> TRUE, http |-> 0, error |-> FALSE, content |-> <<"KeyError">>]
    ELSE IF outcome = "ok"
    THEN [raised |-> FALSE, http |-> 1, error |-> FALSE,
          content |-> <<"json">> \o Format(tool.api_url, args)]
    ELSE [raised |-> FALSE, http |-> 1, error |-> TRUE,
          content |-> <<"error", outcome>>]

\* handle_prompt_tool: no try block at all; the template is formatted, then
\* one generate_content call is made and its text is stripped
handle_prompt_tool(tool, args, outcome) ==
    IF FormatRaises(tool.prompt_template, args)
    THEN [raised |-> TRUE, aux |-> 0, content |-> <<"KeyError">>]
    ELSE IF outcome = "ok"
    THEN [raised |-> FALSE, aux |-> 1,
          content |-> <<"generated">> \o Format(tool.prompt_template, args)]
    ELSE [raised |-> TRUE, aux |-> 1, content |-> <<"APIError">>]

\* the static branch: a template is formatted with final_args, else the
\* configured response_text is returned
static_result(tool, args) ==
    IF tool.has_template
    THEN IF FormatRaises(tool.prompt_template, args)
         THEN [raised |-> TRUE, content |-> <<"KeyError">>]
         ELSE [raised |-> FALSE, content |-> Format(tool.prompt_template, args)]
    ELSE [raised |-> FALSE, content |-> tool.response_text]

SummaryItem(name, type, content) ==
    [name |-> name, type |-> type, content |-> content]

-----------------------------------------------------------------------------
(* call_custom_api: the request it issues                                  *)

\* str.upper() on the methods a configuration can name
Upper(method) ==
    CASE method = "get" -> "GET"
      [] method = "post" -> "POST"
      [] method = "Put" -> "PUT"
      [] OTHER -> method

\* what str.format writes for an argument: str(value)
Str(value) ==
    CASE value = PyInt30 -> <<"30">>
      [] value = PyInt0 -> <<"0">>
      [] value = PyFalse -> <<"False">>
      [] value = PyTrue -> <<"True">>
      [] OTHER -> value

NoBody == [present |-> FALSE, json |-> <<>>]
JsonBody(args) == [present |-> TRUE, json |-> args]

\* a helper that hands json=args to every method
api_request_with_body(tool, args) ==
    [method |-> Upper(Get(tool, "http_method", "GET")),
     url |-> Format(tool.api_url, [k \in DOMAIN args |-> Str(args[k])]),
     body |-> JsonBody(args)]

\* url = tool["api_url"].format(**args); method = http_method.upper();
\* requests.get(url) / requests.post(url, json=args) /
\* requests.request(method, url, json=args)
api_request(tool, args) ==
    LET url == Format(tool.api_url, [k \in DOMAIN args |-> Str(args[k])])
        method == Upper(Get(tool, "http_method", "GET"))
    IN IF method = "GET"
       THEN [method |-> "GET", url |-> url, body |-> NoBody]
       ELSE [method |-> method, url |-> url, body |-> JsonBody(args)]

TestUrls ==
    {<<Lit("https://x/"), Ph("coin")>>,
     <<Lit("https://y/"), Ph("a"), Lit("/"), Ph("b"), Lit("?c="), Ph("a")>>,
     <<Lit("https://z/")>>}

TestMethods == {"GET", "get", "POST", "post", "Put", "DELETE", "PATCH"}

TestApiTools ==
    {[api_url |-> u] : u \in TestUrls}
      \cup {[api_url |-> u, http_method |-> m] :
               u \in TestUrls, m \in TestMethods}

TestArgValues == {<<"bitcoin">>, <<"new", " ", "york">>, PyInt30, <<>>}

TestApiArgs ==
    UNION {[S -> TestArgValues] : S \in SUBSET {"coin", "a", "b"}}

ApiIdle ==
    /\ api_tool = <<>>
    /\ api_args = <<>>
    /\ api_sent = <<>>
    /\ api_result = <<>>
    /\ api_pc = "not_called"

ApiInit ==
    /\ api_tool \in TestApiTools
    /\ api_args \in TestApiArgs
    /\ api_sent = <<>>
    /\ api_result = <<>>
    /\ api_pc = "calling"

\* call_custom_api(tool, args): the url is formatted (KeyError out of the
\* helper when a placeholder has no argument), one request is issued, and
\* its JSON or {"error": ...} is returned
CallCustomApi ==
    /\ api_pc = "calling"
    /\ IF FormatRaises(api_tool.api_url, api_args)
       THEN /\ api_pc' = "raised"
            /\ UNCHANGED <<api_sent, api_result>>
       ELSE /\ api_sent' = Append(api_sent, api_request(api_tool, api_args))
            /\ \E outcome \in ApiOutcomes :
                  api_result' = IF outcome = "ok" THEN <<"json">>
                                ELSE <<"error", outcome>>
            /\ api_pc' = "returned"
    /\ UNCHANGED <<api_tool, api_args>>
    /\ UNCHANGED <<toolVars, audioVars, callVars, chatVars, fillVars, loadVars, dispVars, routeVars, extraVars>>

-----------------------------------------------------------------------------
(* Query routing: classify_query / route_query of src/query_router.py and  *)
(* MasterRouter.classify_intent / route of master_router.py                *)

Routers == {"query_router", "master_router"}

\* `confidence > 0.6`, confidences counted in tenths
Threshold == 6

Num(v) == [num |-> TRUE, v |-> v]
NotNum == [num |-> FALSE, v |-> 0]

Dict(fields) == [dict |-> TRUE, fields |-> fields, raised |-> FALSE]
NotDict == [dict |-> FALSE, fields |-> <<>>, raised |-> FALSE]

Intents == {"navigation", "medical", "general_tools", "general", "smalltalk"}
Confidences == {Num(0), Num(5), Num(6), Num(7), Num(10), NotNum}

\* the JSON objects the classifier may answer with: any of the two keys
\* may be missing, the intent may be one the prompt does not list, the
\* confidence may be a string
ReplyObjects ==
    {Dict([intent |-> i, confidence |-> c]) : i \in Intents, c \in Confidences}
      \cup {Dict([intent |-> i]) : i \in Intents}
      \cup {Dict([confidence |-> c]) : c \in Confidences}
      \cup {Dict(<<>>)}

\* what client.models.generate_content may do: raise, answer with no text,
\* with text that is not JSON, with JSON that is not an object, or with an
\* object
AuxReplies ==
    {[kind |-> "raises", value |-> NotDict],
     [kind |-> "no_text", value |-> NotDict],
     [kind |-> "not_json", value |-> NotDict],
     [kind |-> "json", value |-> NotDict]}
      \cup {[kind |-> "json", value |-> v] : v \in ReplyObjects}

NoReply == [kind |-> "none", value |-> NotDict]

\* except Exception as e: return {"intent": "general", "confidence": 0.0,
\* "error": str(e)}
DefaultClassification ==
    Dict([intent |-> "general", confidence |-> Num(0), error |-> "str(e)"])

\* no value: the exception left the function
Raised == [dict |-> FALSE, fields |-> <<>>, raised |-> TRUE]

\* a classification whose try covers the call but not json.loads
classify_unguarded_parse(reply) ==
    IF reply.kind = "raises" THEN DefaultClassification
    ELSE IF reply.kind = "json" THEN reply.value
    ELSE Raised

\* try: response = generate_content(...); return json.loads(response.text)
\* except Exception: the default. json.loads(None) raises TypeError and
\* text that is not JSON raises JSONDecodeError, both inside the try
classify_query(reply) ==
    IF reply.kind = "json" THEN reply.value ELSE DefaultClassification

\* classification.get("intent", "general") and .get("confidence", 0.0)
intent_of(cls) == Get(cls.fields, "intent", "general")
confidence_of(cls) == Get(cls.fields, "confidence", Num(0))

\* route_query / route raise where the classification is not a dictionary
\* (.get) or the confidence is not a number (the :.2f of the print)
RouteRaises(cls) == ~cls.dict \/ ~confidence_of(cls).num

Above(cls) == confidence_of(cls).v > Threshold

\* the branch the router takes
Branch(r, cls) ==
    IF intent_of(cls) = "navigation" /\ Above(cls) THEN "navigation"
    ELSE IF intent_of(cls) = "medical" /\ Above(cls) THEN "medical"
    ELSE IF r = "master_router" /\ intent_of(cls) = "general_tools" /\ Above(cls)
    THEN "general_tools"
    ELSE "general"

\* the handler a branch calls: the medical branch calls the medical
\* extraction, the other branches only build their response
HandlersOf(branch) == IF branch = "medical" THEN <<"medical">> ELSE <<>>

RouteIdle ==
    /\ router = "none"
    /\ aux_reply = NoReply
    /\ classification = NotDict
    /\ invoked = <<>>
    /\ route_ret = "none"
    /\ route_pc = "idle"

RouteInit ==
    /\ router \in Routers
    /\ aux_reply = NoReply
    /\ classification = NotDict
    /\ invoked = <<>>
    /\ route_ret = "none"
    /\ route_pc = "classify"

\* classification = classify_query(user_query)
Classify ==
    /\ route_pc = "classify"
    /\ \E reply \in AuxReplies :
         /\ aux_reply' = reply
         /\ classification' = classify_query(reply)
         /\ route_pc' = IF classify_query(reply).raised THEN "raised"
                         ELSE "route"
    /\ UNCHANGED <<router, invoked, route_ret>>
    /\ UNCHANGED <<toolVars, audioVars, callVars, chatVars, fillVars, loadVars, dispVars, apiVars, extraVars>>

\* the rest of route_query / route (no tool_name given)
Route ==
    /\ route_pc = "route"
    /\ IF RouteRaises(classification)
       THEN /\ route_pc' = "raised"
            /\ UNCHANGED <<invoked, route_ret>>
       ELSE /\ invoked' = invoked \o HandlersOf(Branch(router, classification))
            /\ route_ret' = Branch(router, classification)
            /\ route_pc' = "returned"
    /\ UNCHANGED <<router, aux_reply, classification>>
    /\ UNCHANGED <<toolVars, audioVars, callVars, chatVars, fillVars, loadVars, dispVars, apiVars, extraVars>>

-----------------------------------------------------------------------------
(* execute_tool_calls, one action per way an iteration of its loop goes    *)

\* the calls the model may put in a response: a registered tool with any
\* subset of its declared parameters filled in, or an unknown name
CallsOf(name) ==
    {[name |-> name, args |-> [p \in S |-> ModelValue(p)]] :
        S \in SUBSET USER_TOOLS[name].properties}

Calls ==
    UNION {CallsOf(n) : n \in ToolNames}
      \cup {[name |-> UnknownTool, args |-> <<>>]}

Batches == UNION {[1..n -> Calls] : n \in 0..MaxBatch}

\* a registry as a frontend configuration can give it: next to two tools of
\* WORKFLOW_CONFIG, tools whose template names a parameter that is declared
\* but not required
OptionalParamTools ==
    [get_weather_tool |-> USER_TOOLS["get_weather_tool"],
     motivation_tool |-> USER_TOOLS["motivation_tool"],
     units_api |->
        Tool("api", <<"location">>, {"location", "unit"},
             <<Lit("forecast/"), Ph("location"), Lit("?unit="), Ph("unit")>>,
             "GET", NoTemplate, FALSE, <<>>),
     tone_tool |->
        Tool("prompt", <<"topic">>, {"topic", "tone"}, NoTemplate, "GET",
             <<Lit("motivate"), Ph("topic"), Lit("in"), Ph("tone")>>, TRUE, <<>>),
     greeting |->
        Tool("static", <<>>, {"name"}, NoTemplate, "GET",
             <<Lit("hello"), Ph("name")>>, TRUE, <<>>)]

DispatchCallsOf(name) ==
    {[name |-> name, args |-> [p \in S |-> ModelValue(p)]] :
        S \in SUBSET OptionalParamTools[name].properties}

DispatchCalls == UNION {DispatchCallsOf(n) : n \in DOMAIN OptionalParamTools}

DispatchBatches == UNION {[1..n -> DispatchCalls] : n \in 0..MaxBatch}

Running == ret.status = "running"
InLoop == Running /\ idx <= Len(tool_calls)
fc == tool_calls[idx]
tool_def == registry[fc.name]
final_args == final_args_of(tool_def, parse_fc_args(fc), history)
missing == missing_of(tool_def, parse_fc_args(fc), history)
Complete == fc.name \in DOMAIN registry /\ missing = <<>>

Return(status, value) == [status |-> status, value |-> value]

\* the text of the turns a role authored, oldest first, as typed
RECURSIVE TextsOf(_, _)
TextsOf(role, hist) ==
    IF hist = <<>> THEN <<>>
    ELSE (IF Head(hist).role = role
          THEN <<Flatten(SelectSeq(Head(hist).parts, LAMBDA t : t # <<>>))>>
          ELSE <<>>) \o TextsOf(role, Tail(hist))

\* user_input: the chatbot passes the line the user just typed, which it
\* has appended to history as the latest user turn
user_input ==
    IF TextsOf("user", history) = <<>> THEN <<>>
    ELSE TextsOf("user", history)[Len(TextsOf("user", history))]

\* execute_tool_calls is entered with a response and the history (lines
\* 471-491): no function_call part returns None at once, else the loop starts
ToolInit ==
    /\ tool_calls \in Batches
    /\ history \in Histories
    /\ idx = 1
    /\ pending_params = <<>>
    /\ static_texts = <<>>
    /\ summary_items = <<>>
    /\ all_static = TRUE
    /\ ret = IF tool_calls = <<>> THEN Return("None", <<>>)
             ELSE Return("running", <<>>)
    /\ http_calls = 0
    /\ aux_calls = 0
    /\ rag_calls = <<>>
    /\ registry = USER_TOOLS
    /\ resolved = [i \in 1..Len(tool_calls) |-> "none"]

\* an exception leaves execute_tool_calls: nothing is returned
Raise ==
    /\ ret' = Return("raised", <<>>)
    /\ resolved' = [resolved EXCEPT ![idx] = "raised"]
    /\ UNCHANGED <<tool_calls, history, idx, pending_params, static_texts,
                   summary_items>>

\* the iteration appended one summary item and goes on to the next call
Executed(type, content, mark) ==
    /\ summary_items' = Append(summary_items, SummaryItem(fc.name, type, content))
    /\ resolved' = [resolved EXCEPT ![idx] = mark]
    /\ idx' = idx + 1
    /\ UNCHANGED <<tool_calls, history, pending_params, ret>>

\* a skip that leaves the all_static flag as it was
SkipUnknownKeepsStatic ==
    /\ UNCHANGED outsideEngine
    /\ UNCHANGED registry
    /\ InLoop
    /\ fc.name \notin DOMAIN registry
    /\ resolved' = [resolved EXCEPT ![idx] = "skipped"]
    /\ idx' = idx + 1
    /\ UNCHANGED <<tool_calls, history, pending_params, static_texts,
                   summary_items, all_static, ret, http_calls, aux_calls,
                   rag_calls>>

\* tool_def is None: all_static = False; continue
SkipUnknown ==
    /\ UNCHANGED outsideEngine
    /\ UNCHANGED registry
    /\ InLoop
    /\ fc.name \notin DOMAIN registry
    /\ all_static' = FALSE
    /\ resolved' = [resolved EXCEPT ![idx] = "skipped"]
    /\ idx' = idx + 1
    /\ UNCHANGED <<tool_calls, history, pending_params, static_texts,
                   summary_items, ret, http_calls, aux_calls, rag_calls>>

\* an iteration that empties the tool's own list of required parameters as
\* it reports them missing
MarkPendingInPlace ==
    /\ UNCHANGED outsideEngine
    /\ InLoop
    /\ fc.name \in DOMAIN registry
    /\ missing # <<>>
    /\ registry' = [registry EXCEPT ![fc.name].required = <<>>]
    /\ all_static' = (all_static /\ tool_def.type = "static")
    /\ pending_params' =
         [n \in DOMAIN pending_params \cup {fc.name} |->
            IF n = fc.name THEN [missing |-> missing, args |-> final_args]
            ELSE pending_params[n]]
    /\ resolved' = [resolved EXCEPT ![idx] = "pending"]
    /\ idx' = idx + 1
    /\ UNCHANGED <<tool_calls, history, static_texts, summary_items, ret,
                   http_calls, aux_calls, rag_calls>>

\* a required parameter is missing: pending_params[tool_name] = {...}; continue
\* (the dict is keyed by tool name: an earlier entry of the same tool is replaced)
MarkPending ==
    /\ UNCHANGED outsideEngine
    /\ UNCHANGED registry
    /\ InLoop
    /\ fc.name \in DOMAIN registry
    /\ missing # <<>>
    /\ all_static' = (all_static /\ tool_def.type = "static")
    /\ pending_params' =
         [n \in DOMAIN pending_params \cup {fc.name} |->
            IF n = fc.name THEN [missing |-> missing, args |-> final_args]
            ELSE pending_params[n]]
    /\ resolved' =
         [i \in DOMAIN resolved |->
            IF i = idx THEN "pending"
            ELSE IF resolved[i] = "pending" /\ tool_calls[i].name = fc.name
                 THEN "replaced"
            ELSE resolved[i]]
    /\ idx' = idx + 1
    /\ UNCHANGED <<tool_calls, history, static_texts, summary_items, ret,
                   http_calls, aux_calls, rag_calls>>

ExecApi ==
    /\ UNCHANGED outsideEngine
    /\ UNCHANGED registry
    /\ InLoop
    /\ Complete
    /\ tool_def.type = "api"
    /\ all_static' = FALSE
    /\ \E outcome \in ApiOutcomes :
         LET r == call_custom_api(tool_def, final_args, outcome)
         IN /\ http_calls' = http_calls + r.http
            /\ IF r.raised THEN Raise
               ELSE Executed("api", r.content,
                             IF r.error THEN "error_result" ELSE "result")
    /\ UNCHANGED <<static_texts, aux_calls, rag_calls>>

ExecPrompt ==
    /\ UNCHANGED outsideEngine
    /\ UNCHANGED registry
    /\ InLoop
    /\ Complete
    /\ tool_def.type = "prompt"
    /\ all_static' = FALSE
    /\ \E outcome \in PromptOutcomes :
         LET r == handle_prompt_tool(tool_def, final_args, outcome)
         IN /\ aux_calls' = aux_calls + r.aux
            /\ IF r.raised THEN Raise
               ELSE Executed("prompt", r.content, "result")
    /\ UNCHANGED <<static_texts, http_calls, rag_calls>>

\* a rag branch that goes on with the loop instead of returning
ExecRagNoReturn ==
    /\ UNCHANGED outsideEngine
    /\ UNCHANGED registry
    /\ InLoop
    /\ Complete
    /\ tool_def.type = "rag"
    /\ all_static' = FALSE
    /\ rag_calls' = Append(rag_calls, user_input)
    /\ resolved' = [resolved EXCEPT ![idx] = "rag"]
    /\ idx' = idx + 1
    /\ UNCHANGED <<tool_calls, history, pending_params, static_texts,
                   summary_items, ret, http_calls, aux_calls>>

\* a rag branch that lets the parameters reported missing so far win
ExecRagAfterPending ==
    /\ UNCHANGED outsideEngine
    /\ UNCHANGED registry
    /\ InLoop
    /\ Complete
    /\ tool_def.type = "rag"
    /\ all_static' = FALSE
    /\ rag_calls' = Append(rag_calls, user_input)
    /\ ret' = IF DOMAIN pending_params # {}
              THEN Return("pending_json", pending_params)
              ELSE Return("rag_mode", <<"rag_result">>)
    /\ resolved' = [resolved EXCEPT ![idx] = "rag"]
    /\ UNCHANGED <<tool_calls, history, idx, pending_params, static_texts,
                   summary_items, http_calls, aux_calls>>

\* the rag branch returns from inside the loop: run_rag is called with
\* user_input, not with the user_query argument of the call
ExecRag ==
    /\ UNCHANGED outsideEngine
    /\ UNCHANGED registry
    /\ InLoop
    /\ Complete
    /\ tool_def.type = "rag"
    /\ all_static' = FALSE
    /\ rag_calls' = Append(rag_calls, user_input)
    /\ ret' = Return("rag_mode", <<"rag_result">>)
    /\ resolved' = [resolved EXCEPT ![idx] = "rag"]
    /\ UNCHANGED <<tool_calls, history, idx, pending_params, static_texts,
                   summary_items, http_calls, aux_calls>>

ExecStatic ==
    /\ UNCHANGED outsideEngine
    /\ UNCHANGED registry
    /\ InLoop
    /\ Complete
    /\ tool_def.type = "static"
    /\ LET r == static_result(tool_def, final_args)
       IN IF r.raised THEN Raise /\ UNCHANGED static_texts
          ELSE /\ static_texts' = Append(static_texts, r.content)
               /\ Executed("static", r.content, "result")
    /\ UNCHANGED <<all_static, http_calls, aux_calls, rag_calls>>

\* after the loop: pending_json, else static_only, else mixed, else None
Aggregate ==
    /\ UNCHANGED outsideEngine
    /\ UNCHANGED registry
    /\ Running
    /\ idx > Len(tool_calls)
    /\ ret' = IF DOMAIN pending_params # {}
              THEN Return("pending_json", pending_params)
              ELSE IF all_static /\ static_texts # <<>>
              THEN Return("static_only", Join(<<"\n\n">>, static_texts))
              ELSE IF summary_items # <<>>
              THEN Return("mixed", summary_items)
              ELSE Return("None", <<>>)
    /\ UNCHANGED <<tool_calls, history, idx, pending_params, static_texts,
                   summary_items, all_static, http_calls, aux_calls,
                   rag_calls, resolved>>

\* the statuses execute_tool_calls returns with
ReturnStatuses == {"None", "pending_json", "static_only", "mixed", "rag_mode"}

\* the calls of the session's responses: one tool of every type called
\* with all the parameters it declares, a tool called with none, or an
\* unknown name
SessionTools ==
    {"crypto_api", "food_suggestion_tool", "schedule_meeting", "rag_tool"}

SessionCall(name) ==
    [name |-> name, args |-> [p \in USER_TOOLS[name].properties |-> ModelValue(p)]]

SessionCalls ==
    {SessionCall(n) : n \in SessionTools}
      \cup {[name |-> "crypto_api", args |-> <<>>],
            [name |-> UnknownTool, args |-> <<>>]}

SessionBatches == UNION {[1..n -> SessionCalls] : n \in 0..MaxBatch}

\* the chatbot's loop calls execute_tool_calls again, on the response to
\* the user's next line: the locals are fresh, the module globals are what
\* the earlier invocations left
Reenter ==
    /\ UNCHANGED outsideEngine
    /\ UNCHANGED registry
    /\ ret.status \in ReturnStatuses
    /\ tool_calls' \in SessionBatches
    /\ idx' = 1
    /\ pending_params' = <<>>
    /\ static_texts' = <<>>
    /\ summary_items' = <<>>
    /\ all_static' = TRUE
    /\ ret' = IF tool_calls' = <<>> THEN Return("None", <<>>)
              ELSE Return("running", <<>>)
    /\ http_calls' = 0
    /\ aux_calls' = 0
    /\ rag_calls' = <<>>
    /\ resolved' = [i \in 1..Len(tool_calls') |-> "none"]
    /\ UNCHANGED history

-----------------------------------------------------------------------------
(* chatbot: what it does with the value execute_tool_calls returned        *)

\* response.text of the routing call: the model may or may not have said
\* something next to its function calls
ResponseTexts == {<<>>, <<"model_text">>}

\* what the summarization model may answer with: a text that repeats every
\* item's content in order, a text of its own wording, no text, or an
\* error raised by the API call
SummaryOutcomes == {"repeats", "rewords", "empty", "raises"}

summary_text(items, outcome) ==
    CASE outcome = "repeats" ->
           Join(<<"\n\n">>, [i \in 1..Len(items) |-> items[i].content])
      [] outcome = "rewords" -> <<"summary", "in", "other", "words">>
      [] OTHER -> <<>>

Answer(source, text) == [source |-> source, text |-> text]

ChatInit ==
    /\ chat = "waiting"
    /\ answer = Answer("none", <<>>)
    /\ summary_calls = 0

\* the fallback and the early branches print response_text when it is not
\* empty
Fallback(response_text) ==
    IF response_text = <<>> THEN Answer("none", <<>>)
    ELSE Answer("model", response_text)

\* chatbot, from the return of execute_tool_calls to the end of the turn
ChatbotAnswer ==
    /\ UNCHANGED <<toolVars, audioVars, callVars, fillVars, restVars>>
    /\ chat = "waiting"
    /\ ~Running
    /\ \E response_text \in ResponseTexts : \E outcome \in SummaryOutcomes :
         CASE ret.status = "raised" ->
                /\ chat' = "raised"
                /\ UNCHANGED <<answer, summary_calls>>
           [] ret.status = "static_only" ->
                /\ chat' = "answered"
                /\ answer' = IF Strip(ret.value) # <<>>
                             THEN Answer("static", Strip(ret.value))
                             ELSE Fallback(response_text)
                /\ UNCHANGED summary_calls
           [] ret.status = "rag_mode" ->
                /\ chat' = "answered"
                /\ answer' = Answer("rag", ret.value)
                /\ UNCHANGED summary_calls
           [] ret.status = "mixed" /\ ret.value # <<>> ->
                /\ summary_calls' = summary_calls + 1
                /\ IF outcome = "raises"
                   THEN chat' = "raised" /\ UNCHANGED answer
                   ELSE /\ chat' = "answered"
                        /\ answer' =
                             IF Strip(summary_text(ret.value, outcome)) # <<>>
                             THEN Answer("summary",
                                         Strip(summary_text(ret.value, outcome)))
                             ELSE Fallback(response_text)
           [] OTHER ->
                /\ chat' = "answered"
                /\ answer' = Fallback(response_text)
                /\ UNCHANGED summary_calls

-----------------------------------------------------------------------------
(* AudioLoop: the tasks run() starts in one asyncio.TaskGroup               *)

\* asyncio.Queue(maxsize=5)
OutQueueMaxsize == 5

Tasks == {"send_text", "send_realtime", "listen_audio", "get_frames",
          "receive_audio", "play_audio"}

Msg(id, mime) == [id |-> id, mime |-> mime]
NoMsg == Msg(0, "none")

\* asyncio.Queue.full()
QueueFullUnbounded(q) == FALSE
QueueFull(q) == Len(q) >= OutQueueMaxsize

\* asyncio.Queue._put(): the item joins the queue at its end
EnqueueFront(q, item) == <<item>> \o q
Enqueue(q, item) == Append(q, item)

\* asyncio.Queue.get_nowait(): the oldest item leaves the queue
DequeueNewest(q) == [item |-> q[Len(q)], rest |-> SubSeq(q, 1, Len(q) - 1)]
Dequeue(q) == [item |-> Head(q), rest |-> Tail(q)]

\* while not self.audio_in_queue.empty(): self.audio_in_queue.get_nowait()
DrainOnce(q) == IF q = <<>> THEN q ELSE Tail(q)
Drain(q) == <<>>

\* the awaits at which a task is in a blocking device operation: opening
\* a device, a microphone or camera read, a speaker write, the console read
DeviceOps ==
    [send_text |-> {"input"}, send_realtime |-> {},
     listen_audio |-> {"opening", "reading"}, get_frames |-> {"grab"},
     receive_audio |-> {}, play_audio |-> {"opening", "writing"}]

\* the awaits that go through asyncio.to_thread
ToThread ==
    [send_text |-> {"input"}, send_realtime |-> {},
     listen_audio |-> {"opening", "reading"}, get_frames |-> {"grab"},
     receive_audio |-> {}, play_audio |-> {"opening", "writing"}]

\* a loop in which stream.write is called on the event loop thread itself
OnWorkerButWrite(t, op) == op \in ToThread[t] /\ op # "writing"

\* the operation runs on a worker thread and the task is merely suspended
OnWorker(t, op) == op \in ToThread[t]

\* a blocking call made on the event loop thread keeps the thread until it
\* returns
HoldsLoop(t) ==
    /\ task[t] = "running"
    /\ pc[t] \in DeviceOps[t]
    /\ ~OnWorker(t, pc[t])

\* task t can take a step: it is running, the group is not exiting, and no
\* other task holds the event loop thread
Alive(t) ==
    /\ task[t] = "running"
    /\ run_state = "awaiting"
    /\ \A u \in Tasks \ {t} : ~HoldsLoop(u)

\* the state run() is in once the queues exist and the tasks are created
\* (lines 265-281): every task is at its first await
AudioInit ==
    /\ task = [t \in Tasks |-> "running"]
    /\ pc = [send_text |-> "input", send_realtime |-> "get",
             listen_audio |-> "opening", get_frames |-> "grab",
             receive_audio |-> "receive", play_audio |-> "opening"]
    /\ run_state = "awaiting"
    /\ reported = FALSE
    /\ audio_stream = "unset"
    /\ out_stream = "unopened"
    /\ out_queue = <<>>
    /\ held = [t \in {"listen_audio", "get_frames"} |-> NoMsg]
    /\ sent = <<>>
    /\ next_id = 1
    /\ ai_speaking = FALSE
    /\ audio_in_queue = <<>>
    /\ next_chunk = 1
    /\ boundary = 0
    /\ played = <<>>
    /\ put_speaking = {}

lifeVars == <<task, run_state, reported>>
outVars == <<out_queue, held, sent, next_id, put_speaking>>
inVars == <<audio_in_queue, next_chunk, boundary, played>>

\* await self.out_queue.put(item) by producer t: the item is appended at
\* once when there is room, else the producer is suspended holding it
Put(t, item) ==
    IF QueueFull(out_queue)
    THEN /\ pc' = [pc EXCEPT ![t] = "putting"]
         /\ held' = [held EXCEPT ![t] = item]
         /\ UNCHANGED <<out_queue, put_speaking>>
    ELSE /\ out_queue' = Enqueue(out_queue, item)
         /\ put_speaking' = IF t = "listen_audio" /\ ai_speaking
                            THEN put_speaking \cup {item.id}
                            ELSE put_speaking
         /\ UNCHANGED <<pc, held>>

\* a suspended put() goes on once the queue has room again
PutResume(t, back) ==
    /\ UNCHANGED outsideSession
    /\ Alive(t)
    /\ pc[t] = "putting"
    /\ ~QueueFull(out_queue)
    /\ out_queue' = Enqueue(out_queue, held[t])
    /\ put_speaking' = IF t = "listen_audio" /\ ai_speaking
                       THEN put_speaking \cup {held[t].id}
                       ELSE put_speaking
    /\ held' = [held EXCEPT ![t] = NoMsg]
    /\ pc' = [pc EXCEPT ![t] = back]
    /\ UNCHANGED <<lifeVars, audio_stream, out_stream, sent, next_id,
                   ai_speaking, inVars>>

\* listen_audio: pya.open(...) has returned the capture stream
ListenOpened ==
    /\ UNCHANGED outsideSession
    /\ Alive("listen_audio")
    /\ pc["listen_audio"] = "opening"
    /\ audio_stream' = "open"
    /\ pc' = [pc EXCEPT !["listen_audio"] = "reading"]
    /\ UNCHANGED <<lifeVars, out_stream, outVars, ai_speaking, inVars>>

\* listen_audio: audio_stream.read returned a chunk; it is put on out_queue
\* unless ai_speaking, and the next read is started
ListenRead ==
    /\ UNCHANGED outsideSession
    /\ Alive("listen_audio")
    /\ pc["listen_audio"] = "reading"
    /\ audio_stream = "open"
    /\ IF ai_speaking
       THEN UNCHANGED <<pc, outVars>>
       ELSE /\ next_id <= MaxMsgs
            /\ next_id' = next_id + 1
            /\ Put("listen_audio", Msg(next_id, "audio/pcm"))
            /\ UNCHANGED sent
    /\ UNCHANGED <<lifeVars, audio_stream, out_stream, ai_speaking, inVars>>

\* a put that gives its frame up when it finds the queue full: the capture
\* task goes on to the next read without it
ListenPutGivesUp ==
    /\ UNCHANGED outsideSession
    /\ Alive("listen_audio")
    /\ pc["listen_audio"] = "putting"
    /\ pc' = [pc EXCEPT !["listen_audio"] = "reading"]
    /\ UNCHANGED <<lifeVars, audio_stream, out_stream, outVars, ai_speaking,
                   inVars>>

ListenPutResume == PutResume("listen_audio", "reading")

\* the capture device stops delivering (unplugged, stopped by the host):
\* from now on a read of the stream cannot return a chunk
StreamEnds ==
    /\ UNCHANGED outsideSession
    /\ run_state = "awaiting"
    /\ audio_stream = "open"
    /\ audio_stream' = "ended"
    /\ UNCHANGED <<lifeVars, pc, out_stream, outVars, ai_speaking, inVars>>

\* a read that swallows the device's report and is started again
ListenEndOfStreamIgnored ==
    /\ UNCHANGED outsideSession
    /\ Alive("listen_audio")
    /\ pc["listen_audio"] = "reading"
    /\ audio_stream = "ended"
    /\ UNCHANGED <<lifeVars, pc, audio_stream, out_stream, outVars,
                   ai_speaking, inVars>>

\* listen_audio: audio_stream.read always returns a full chunk or raises;
\* on the ended stream it raises OSError, which nothing in listen_audio
\* catches: the while True loop is left and the task is over
ListenEndOfStream ==
    /\ UNCHANGED outsideSession
    /\ Alive("listen_audio")
    /\ pc["listen_audio"] = "reading"
    /\ audio_stream = "ended"
    /\ task' = [task EXCEPT !["listen_audio"] = "failed"]
    /\ UNCHANGED <<pc, run_state, reported, audio_stream, out_stream,
                   outVars, ai_speaking, inVars>>

\* get_frames: _get_frame returned a frame and the sleep is over; the frame
\* is put on out_queue whatever ai_speaking is
FramesGrab ==
    /\ UNCHANGED outsideSession
    /\ Alive("get_frames")
    /\ pc["get_frames"] = "grab"
    /\ next_id <= MaxMsgs
    /\ next_id' = next_id + 1
    /\ Put("get_frames", Msg(next_id, "image/jpeg"))
    /\ UNCHANGED <<lifeVars, audio_stream, out_stream, sent, ai_speaking,
                   inVars>>

\* get_frames: _get_frame returned None; break, cap.release(), the task ends
FramesEnd ==
    /\ UNCHANGED outsideSession
    /\ Alive("get_frames")
    /\ pc["get_frames"] = "grab"
    /\ task' = [task EXCEPT !["get_frames"] = "done"]
    /\ UNCHANGED <<pc, run_state, reported, audio_stream, out_stream,
                   outVars, ai_speaking, inVars>>

FramesPutResume == PutResume("get_frames", "grab")

\* send_realtime: out_queue.get() returned msg and session.send(input=msg)
\* is called
SendGet ==
    /\ UNCHANGED outsideSession
    /\ Alive("send_realtime")
    /\ pc["send_realtime"] = "get"
    /\ out_queue # <<>>
    /\ out_queue' = Dequeue(out_queue).rest
    /\ sent' = Append(sent, Dequeue(out_queue).item)
    /\ pc' = [pc EXCEPT !["send_realtime"] = "sending"]
    /\ UNCHANGED <<lifeVars, audio_stream, out_stream, held, next_id,
                   put_speaking, ai_speaking, inVars>>

\* send_realtime: session.send returned
SendDone ==
    /\ UNCHANGED outsideSession
    /\ Alive("send_realtime")
    /\ pc["send_realtime"] = "sending"
    /\ pc' = [pc EXCEPT !["send_realtime"] = "get"]
    /\ UNCHANGED <<lifeVars, audio_stream, out_stream, outVars, ai_speaking,
                   inVars>>

\* send_text: input() returned a line other than "q";
\* session.send(input=text or ".", end_of_turn=True) is called
ConsoleText ==
    /\ UNCHANGED outsideSession
    /\ Alive("send_text")
    /\ pc["send_text"] = "input"
    /\ next_id <= MaxMsgs
    /\ next_id' = next_id + 1
    /\ sent' = Append(sent, Msg(next_id, "text"))
    /\ pc' = [pc EXCEPT !["send_text"] = "sending"]
    /\ UNCHANGED <<lifeVars, audio_stream, out_stream, out_queue, held,
                   put_speaking, ai_speaking, inVars>>

\* send_text: session.send returned
ConsoleSendDone ==
    /\ UNCHANGED outsideSession
    /\ Alive("send_text")
    /\ pc["send_text"] = "sending"
    /\ pc' = [pc EXCEPT !["send_text"] = "input"]
    /\ UNCHANGED <<lifeVars, audio_stream, out_stream, outVars, ai_speaking,
                   inVars>>

\* receive_audio: a response with data; audio_in_queue.put_nowait(data)
RecvAudio ==
    /\ UNCHANGED outsideSession
    /\ Alive("receive_audio")
    /\ pc["receive_audio"] = "receive"
    /\ next_chunk <= MaxChunks
    /\ audio_in_queue' = Append(audio_in_queue, next_chunk)
    /\ next_chunk' = next_chunk + 1
    /\ UNCHANGED <<lifeVars, pc, audio_stream, out_stream, outVars,
                   ai_speaking, boundary, played>>

\* receive_audio: the turn is over; the inbound queue is emptied before the
\* next await
RecvTurnComplete ==
    /\ UNCHANGED outsideSession
    /\ Alive("receive_audio")
    /\ pc["receive_audio"] = "receive"
    /\ audio_in_queue' = Drain(audio_in_queue)
    /\ boundary' = next_chunk - 1
    /\ UNCHANGED <<lifeVars, pc, audio_stream, out_stream, outVars,
                   ai_speaking, next_chunk, played>>

\* play_audio: pya.open(..., output=True) has returned the output stream
PlayOpened ==
    /\ UNCHANGED outsideSession
    /\ Alive("play_audio")
    /\ pc["play_audio"] = "opening"
    /\ out_stream' = "open"
    /\ pc' = [pc EXCEPT !["play_audio"] = "get"]
    /\ UNCHANGED <<lifeVars, audio_stream, outVars, ai_speaking, inVars>>

\* play_audio: audio_in_queue.get() returned a chunk; ai_speaking = True and
\* stream.write(bytestream) is started on a worker thread
PlayGet ==
    /\ UNCHANGED outsideSession
    /\ Alive("play_audio")
    /\ pc["play_audio"] = "get"
    /\ audio_in_queue # <<>>
    /\ audio_in_queue' = Dequeue(audio_in_queue).rest
    /\ played' = Append(played, [chunk |-> Dequeue(audio_in_queue).item,
                                 boundary |-> boundary])
    /\ ai_speaking' = TRUE
    /\ pc' = [pc EXCEPT !["play_audio"] = "writing"]
    /\ UNCHANGED <<lifeVars, audio_stream, out_stream, outVars, next_chunk,
                   boundary>>

\* a playback loop that does not reset the flag after the write
PlayWriteDoneFlagKept ==
    /\ UNCHANGED outsideSession
    /\ Alive("play_audio")
    /\ pc["play_audio"] = "writing"
    /\ pc' = [pc EXCEPT !["play_audio"] = "get"]
    /\ UNCHANGED <<lifeVars, audio_stream, out_stream, outVars, ai_speaking,
                   inVars>>

\* play_audio: stream.write returned; ai_speaking = False
PlayWriteDone ==
    /\ UNCHANGED outsideSession
    /\ Alive("play_audio")
    /\ pc["play_audio"] = "writing"
    /\ ai_speaking' = FALSE
    /\ pc' = [pc EXCEPT !["play_audio"] = "get"]
    /\ UNCHANGED <<lifeVars, audio_stream, out_stream, outVars, inVars>>

-----------------------------------------------------------------------------
(* receive_audio: the tool-call branch (for fc in tool_call.function_calls) *)

\* the names the two branches of the loop test for
HandlerNames == {"navigate_to_page", "extract_medical_info"}

\* a function name neither branch tests for
UnhandledName == "undeclared_tool"

CallNames == HandlerNames \cup {UnhandledName}

\* what `result` is after the branches: handle_navigation returns a dict
\* with a "result" or an "error" key; handle_medical_extraction returns
\* json.loads(response.text), which may be {} / [] / null, or {"error": ..};
\* for any other name result stays None
HandlerResults(name) ==
    CASE name = "navigate_to_page" -> {"dict"}
      [] name = "extract_medical_info" -> {"dict", "empty"}
      [] OTHER -> {"None"}

\* `if result:`
Truthy(result) == result = "dict"

FunctionCall(name, id) == [name |-> name, id |-> id]
FunctionResponse(name, id) == [name |-> name, id |-> id]

CallInit ==
    /\ tool_call = <<>>
    /\ fc_pos = 1
    /\ tool_responses = <<>>
    /\ events_seen = 0

\* receive_audio: the next response of the turn carries a tool_call
RecvToolCall ==
    /\ UNCHANGED <<toolVars, chatVars, fillVars, restVars>>
    /\ Alive("receive_audio")
    /\ pc["receive_audio"] = "receive"
    /\ events_seen < MaxEvents
    /\ \E n \in 1..MaxCalls : \E names \in [1..n -> CallNames] :
         tool_call' = [i \in 1..n |->
                         FunctionCall(names[i], events_seen * MaxCalls + i)]
    /\ fc_pos' = 1
    /\ tool_responses' = <<>>
    /\ events_seen' = events_seen + 1
    /\ pc' = [pc EXCEPT !["receive_audio"] = "calls"]
    /\ UNCHANGED <<lifeVars, audio_stream, out_stream, outVars, ai_speaking,
                   inVars>>

\* one iteration of the loop: the handler runs; a truthy result is sent as
\* one LiveClientToolResponse with the call's name and id, anything else
\* goes on to the next call without sending
DispatchCall ==
    /\ UNCHANGED <<toolVars, chatVars, fillVars, restVars>>
    /\ Alive("receive_audio")
    /\ pc["receive_audio"] = "calls"
    /\ fc_pos <= Len(tool_call)
    /\ \E result \in HandlerResults(tool_call[fc_pos].name) :
         IF Truthy(result)
         THEN /\ tool_responses' =
                   Append(tool_responses,
                          FunctionResponse(tool_call[fc_pos].name,
                                           tool_call[fc_pos].id))
              /\ pc' = [pc EXCEPT !["receive_audio"] = "responding"]
              /\ UNCHANGED fc_pos
         ELSE /\ fc_pos' = fc_pos + 1
              /\ UNCHANGED <<tool_responses, pc>>
    /\ UNCHANGED <<tool_call, events_seen, lifeVars, audio_stream,
                   out_stream, outVars, ai_speaking, inVars>>

\* await self.session.send(input=LiveClientToolResponse(...)) returned
ToolResponseSent ==
    /\ UNCHANGED <<toolVars, chatVars, fillVars, restVars>>
    /\ Alive("receive_audio")
    /\ pc["receive_audio"] = "responding"
    /\ fc_pos' = fc_pos + 1
    /\ pc' = [pc EXCEPT !["receive_audio"] = "calls"]
    /\ UNCHANGED <<tool_call, tool_responses, events_seen, lifeVars,
                   audio_stream, out_stream, outVars, ai_speaking, inVars>>

\* the loop over the function calls is over: the next response is awaited
ToolCallDone ==
    /\ UNCHANGED <<toolVars, chatVars, fillVars, restVars>>
    /\ Alive("receive_audio")
    /\ pc["receive_audio"] = "calls"
    /\ fc_pos > Len(tool_call)
    /\ pc' = [pc EXCEPT !["receive_audio"] = "receive"]
    /\ UNCHANGED <<callVars, lifeVars, audio_stream, out_stream, outVars,
                   ai_speaking, inVars>>

-----------------------------------------------------------------------------
(* receive_audio: the transcription branch                                 *)

MaxTrans == 6

NoSpeaker == "None"
Speakers == {"User", "Model"}

\* print("\nUser: ", end="") and print(transcription.text, end="")
Boundary(role) == [kind |-> "boundary", role |-> role]
Text(role) == [kind |-> "text", role |-> role]

\* the transcriptions one streamed response can carry; the input
\* transcription is handled before the output transcription
Transcriptions == {<<"User">>, <<"Model">>, <<"User", "Model">>}

\* a display that prints the speaker before every transcription
TranscribeEvery(role, disp) ==
    [last_speaker |-> role,
     display |-> disp.display \o <<Boundary(role), Text(role)>>]

\* if self.last_speaker != role: print the speaker, last_speaker = role;
\* then print the transcription text
Transcribe(role, disp) ==
    IF disp.last_speaker # role
    THEN [last_speaker |-> role,
          display |-> disp.display \o <<Boundary(role), Text(role)>>]
    ELSE [last_speaker |-> disp.last_speaker,
          display |-> Append(disp.display, Text(role))]

RECURSIVE TranscribeAll(_, _)
TranscribeAll(roles, disp) ==
    IF roles = <<>> THEN disp
    ELSE TranscribeAll(Tail(roles), Transcribe(Head(roles), disp))

\* __init__: self.last_speaker = None, nothing printed yet
DisplayInit ==
    /\ last_speaker = NoSpeaker
    /\ display = <<>>

\* receive_audio: a response with an input and / or an output transcription
RecvTranscription ==
    /\ Alive("receive_audio")
    /\ pc["receive_audio"] = "receive"
    /\ Len(display) < MaxTrans
    /\ \E roles \in Transcriptions :
         LET after == TranscribeAll(roles, [last_speaker |-> last_speaker,
                                            display |-> display])
         IN /\ last_speaker' = after.last_speaker
            /\ display' = after.display
    /\ UNCHANGED <<toolVars, audioVars, callVars, chatVars, fillVars, loadVars, apiVars, routeVars, extraVars>>

-----------------------------------------------------------------------------
(* run(): the TaskGroup's fail-fast exit and the two except clauses        *)

\* the awaits at which a task can raise: a device, the console or the
\* session fails; waiting on a queue raises nothing
CanFail(t) ==
    CASE t = "listen_audio" -> pc[t] \in {"opening", "reading"}
      [] t = "play_audio" -> pc[t] \in {"opening", "writing"}
      [] t = "send_realtime" -> pc[t] = "sending"
      [] t = "get_frames" -> pc[t] = "grab"
      [] OTHER -> TRUE

\* a task of the group raises an exception other than CancelledError
TaskFails ==
    /\ UNCHANGED outsideSession
    /\ \E t \in Tasks :
         /\ Alive(t)
         /\ CanFail(t)
         /\ task' = [task EXCEPT ![t] = "failed"]
    /\ UNCHANGED <<pc, run_state, reported, audio_stream, out_stream,
                   outVars, ai_speaking, inVars>>

\* send_text: input() returned "q"; break, the task is done
UserQuits ==
    /\ UNCHANGED outsideSession
    /\ Alive("send_text")
    /\ pc["send_text"] = "input"
    /\ task' = [task EXCEPT !["send_text"] = "done"]
    /\ UNCHANGED <<pc, run_state, reported, audio_stream, out_stream,
                   outVars, ai_speaking, inVars>>

\* a group whose exit leaves the running tasks alone
GroupAbortNoCancel ==
    /\ UNCHANGED outsideSession
    /\ run_state = "awaiting"
    /\ \/ \E t \in Tasks : task[t] = "failed"
       \/ task["send_text"] = "done"
    /\ run_state' = "unwinding"
    /\ UNCHANGED <<task, pc, reported, audio_stream, out_stream, outVars,
                   ai_speaking, inVars>>

\* TaskGroup: a task has failed, or the body raised CancelledError after
\* `await send_text_task`; every task still running is cancelled
GroupAbort ==
    /\ UNCHANGED outsideSession
    /\ run_state = "awaiting"
    /\ \/ \E t \in Tasks : task[t] = "failed"
       \/ task["send_text"] = "done"
    /\ task' = [t \in Tasks |->
                  IF task[t] = "running" THEN "cancelled" ELSE task[t]]
    /\ run_state' = "unwinding"
    /\ UNCHANGED <<pc, reported, audio_stream, out_stream, outVars,
                   ai_speaking, inVars>>

\* except asyncio.CancelledError: pass
ExceptCancelled ==
    /\ UNCHANGED outsideSession
    /\ run_state = "unwinding"
    /\ \A t \in Tasks : task[t] # "failed"
    /\ run_state' = "returned"
    /\ UNCHANGED <<task, pc, reported, audio_stream, out_stream, outVars,
                   ai_speaking, inVars>>

\* except ExceptionGroup as EG: self.audio_stream.close();
\* traceback.print_exception(EG). The attribute audio_stream exists only
\* once listen_audio has opened the capture stream: before that the close
\* raises AttributeError out of run()
ExceptGroup ==
    /\ UNCHANGED outsideSession
    /\ run_state = "unwinding"
    /\ \E t \in Tasks : task[t] = "failed"
    /\ IF audio_stream = "unset"
       THEN /\ run_state' = "raised"
            /\ UNCHANGED <<audio_stream, reported>>
       ELSE /\ audio_stream' = "closed"
            /\ reported' = TRUE
            /\ run_state' = "returned"
    /\ UNCHANGED <<task, pc, out_stream, outVars, ai_speaking, inVars>>

-----------------------------------------------------------------------------
(* Specifications                                                          *)

-----------------------------------------------------------------------------
(* trim_history_blocks and the chatbot loop (src/final_tool.py)            *)

\* chatbot calls trim_history_blocks(history, max_users=5)
MaxUsers == 5

MaxTurns == 7
MaxItems == 4
MaxKeep == 3

\* the for loop over history: a user item closes the current block and
\* starts a new one, any other item joins the current block
RECURSIVE BlocksFrom(_, _, _)
BlocksFrom(items, blocks, current_block) ==
    IF items = <<>>
    THEN (IF current_block # <<>> THEN Append(blocks, current_block) ELSE blocks)
    ELSE IF Head(items).role = "user"
    THEN BlocksFrom(Tail(items),
                    IF current_block # <<>> THEN Append(blocks, current_block)
                    ELSE blocks,
                    <<Head(items)>>)
    ELSE BlocksFrom(Tail(items), blocks, Append(current_block, Head(items)))

\* Python's seq[start:]: a negative start counts from the end and is
\* clamped at the beginning, a start of 0 or more counts from the beginning
PySliceFrom(seq, start) ==
    LET n == Len(seq)
        first == IF start < 0
                 THEN (IF n + start < 0 THEN 0 ELSE n + start)
                 ELSE (IF start > n THEN n ELSE start)
    IN SubSeq(seq, first + 1, n)

\* blocks = blocks[-max_users:]
LastBlocks(blocks, max_users) == PySliceFrom(blocks, 0 - max_users)

trim_history_blocks(hist, max_users) ==
    Flatten(LastBlocks(BlocksFrom(hist, <<>>, <<>>), max_users))

\* what the chatbot appends: the line typed, the candidate content of the
\* response, the text it printed as its answer
UserContent == Turn("user", << <<"typed">> >>)
CandidateContent == Turn("model", << <<"model_text">> >>)
AnswerContent == Turn("model", << <<"answer">> >>)

\* what execute_tool_calls hands back to the loop; text is the stripped
\* static text, or the stripped text of the summarization call
ToolResults ==
    [status : ReturnStatuses, text : {<<>>, <<"answer">>}]

\* the branches of the loop after execute_tool_calls (lines 686-742)
history_after_turn(hist, tool_results) ==
    CASE tool_results.status \in {"None", "pending_json"} ->
           trim_history_blocks(hist, MaxUsers)
      [] tool_results.status = "static_only" /\ tool_results.text # <<>> ->
           trim_history_blocks(Append(hist, AnswerContent), MaxUsers)
      [] tool_results.status = "rag_mode" ->
           Append(hist, AnswerContent)
      [] tool_results.status = "mixed" /\ tool_results.text # <<>> ->
           trim_history_blocks(Append(hist, AnswerContent), MaxUsers)
      [] OTHER ->
           trim_history_blocks(hist, MaxUsers)

LoopIdle ==
    /\ loop_pc = "idle"
    /\ iterations = 0
    /\ trim_n = 0
    /\ trimmed = <<>>

\* chatbot(): history = []
LoopInit ==
    /\ loop_pc = "input"
    /\ iterations = 0
    /\ trim_n = 0
    /\ trimmed = <<>>

\* input() returns "exit" or "quit": break
UserExits ==
    /\ loop_pc = "input"
    /\ loop_pc' = "exited"
    /\ UNCHANGED <<iterations, trim_n, trimmed>>
    /\ UNCHANGED outsideLoop

\* the top of an iteration: the line typed is appended, the main model is
\* called, and its candidate content (if it has one) is appended
UserTurn ==
    /\ loop_pc = "input"
    /\ iterations < MaxTurns
    /\ iterations' = iterations + 1
    /\ \E has_content \in BOOLEAN :
         history' = Append(history, UserContent)
                      \o (IF has_content THEN <<CandidateContent>> ELSE <<>>)
    /\ loop_pc' = "tools"
    /\ UNCHANGED <<trim_n, trimmed>>
    /\ UNCHANGED <<tool_calls, idx, pending_params, static_texts,
                   summary_items, all_static, ret, http_calls, aux_calls,
                   rag_calls, resolved, registry>>
    /\ UNCHANGED <<audioVars, callVars, chatVars, fillVars,
                   loadVars, dispVars, apiVars, routeVars, staticVars,
                   genVars, dynVars, vadVars>>

\* execute_tool_calls has returned: the branch taken ends the iteration
FinishTurn ==
    /\ loop_pc = "tools"
    /\ \E tool_results \in ToolResults :
         history' = history_after_turn(history, tool_results)
    /\ loop_pc' = "input"
    /\ UNCHANGED <<iterations, trim_n, trimmed>>
    /\ UNCHANGED <<tool_calls, idx, pending_params, static_texts,
                   summary_items, all_static, ret, http_calls, aux_calls,
                   rag_calls, resolved, registry>>
    /\ UNCHANGED <<audioVars, callVars, chatVars, fillVars,
                   loadVars, dispVars, apiVars, routeVars, staticVars,
                   genVars, dynVars, vadVars>>

\* the histories trim_history_blocks is tried on: every sequence of user
\* and model items of the bound, each item with a text of its own
ItemTexts == <<"t1", "t2", "t3", "t4", "t5", "t6">>

TrimHistories ==
    UNION {{[i \in 1..n |-> Turn(roles[i], << <<ItemTexts[i]>> >>)] :
              roles \in [1..n -> {"user", "model"}]} : n \in 0..MaxItems}

TrimInit ==
    /\ loop_pc = "idle"
    /\ iterations = 0
    /\ trim_n \in 0..MaxKeep
    /\ trimmed = <<>>

\* new_history = trim_history_blocks(history, max_users), applied to the
\* history and then to its own result
TrimHistory ==
    /\ Len(trimmed) < 2
    /\ trimmed' = Append(trimmed,
                         trim_history_blocks(IF trimmed = <<>> THEN history
                                             ELSE trimmed[Len(trimmed)],
                                             trim_n))
    /\ UNCHANGED <<loop_pc, iterations, trim_n>>
    /\ UNCHANGED outsideLoop

-----------------------------------------------------------------------------
(* The file-playback client (src/static.py)                                *)

MaxFileChunks == 5
MaxTexts == 5

\* what main() can hand to AudioLoop: an empty line, a path with no file
\* behind it, a file pydub cannot decode, a file it can
FilePaths == {"empty", "missing", "undecodable", "audio"}

StaticIdle ==
    /\ audio_file_path = "empty"
    /\ file_sent = FALSE
    /\ file_pc = "idle"
    /\ chunks_left = 0
    /\ text_pc = "idle"
    /\ texts_sent = 0
    /\ static_run = "idle"

\* __init__ and run() up to `await send_text_task`
StaticInit ==
    /\ audio_file_path \in FilePaths
    /\ file_sent = FALSE
    /\ file_pc = "start"
    /\ chunks_left = 0
    /\ text_pc = "waiting"
    /\ texts_sent = 0
    /\ static_run = "awaiting"

\* send_audio_file, lines 70-76: no path and no file both print and return
FileChecked ==
    /\ UNCHANGED outsideStatic
    /\ static_run = "awaiting"
    /\ file_pc = "start"
    /\ file_pc' = IF audio_file_path \in {"empty", "missing"} THEN "returned"
                  ELSE "converting"
    /\ UNCHANGED <<audio_file_path, file_sent, chunks_left, text_pc,
                   texts_sent, static_run>>

\* lines 80-95: the conversion raises, which the except clause turns into
\* file_sent = True, or it gives the PCM data to send
FileConverted ==
    /\ UNCHANGED outsideStatic
    /\ static_run = "awaiting"
    /\ file_pc = "converting"
    /\ IF audio_file_path = "undecodable"
       THEN /\ file_sent' = TRUE
            /\ file_pc' = "returned"
            /\ UNCHANGED chunks_left
       ELSE /\ \E n \in 0..MaxFileChunks : chunks_left' = n
            /\ file_pc' = "sending"
            /\ UNCHANGED file_sent
    /\ UNCHANGED <<audio_file_path, text_pc, texts_sent, static_run>>

\* lines 97-103: one chunk is sent, or send_realtime_input raises and the
\* except clause sets the flag
FileChunkSent ==
    /\ UNCHANGED outsideStatic
    /\ static_run = "awaiting"
    /\ file_pc = "sending"
    /\ chunks_left > 0
    /\ \/ /\ chunks_left' = chunks_left - 1
          /\ UNCHANGED <<file_sent, file_pc>>
       \/ /\ file_sent' = TRUE
          /\ file_pc' = "returned"
          /\ UNCHANGED chunks_left
    /\ UNCHANGED <<audio_file_path, text_pc, texts_sent, static_run>>

\* lines 106-109: audio_stream_end is sent and the flag is set; the except
\* clause sets it as well when that send raises
FileEndSent ==
    /\ UNCHANGED outsideStatic
    /\ static_run = "awaiting"
    /\ file_pc = "sending"
    /\ chunks_left = 0
    /\ file_sent' = TRUE
    /\ file_pc' = "returned"
    /\ UNCHANGED <<audio_file_path, chunks_left, text_pc, texts_sent, static_run>>

\* send_text, lines 120-124: while not self.file_sent: sleep(0.1)
TextWaits ==
    /\ UNCHANGED outsideStatic
    /\ static_run = "awaiting"
    /\ text_pc = "waiting"
    /\ text_pc' = IF file_sent THEN "input" ELSE "waiting"
    /\ UNCHANGED <<audio_file_path, file_sent, file_pc, chunks_left,
                   texts_sent, static_run>>

\* lines 126-134: a line other than "q" is written to the session
TextTyped ==
    /\ UNCHANGED outsideStatic
    /\ static_run = "awaiting"
    /\ text_pc = "input"
    /\ texts_sent < MaxTexts
    /\ texts_sent' = texts_sent + 1
    /\ UNCHANGED <<audio_file_path, file_sent, file_pc, chunks_left, text_pc,
                   static_run>>

\* line 131: "q" breaks the loop and send_text returns
TextQuit ==
    /\ UNCHANGED outsideStatic
    /\ static_run = "awaiting"
    /\ text_pc = "input"
    /\ text_pc' = "done"
    /\ UNCHANGED <<audio_file_path, file_sent, file_pc, chunks_left,
                   texts_sent, static_run>>

\* run(), lines 212-223: send_text_task is over, CancelledError is raised
\* and caught, the tasks are cancelled and the WAV file is closed
StaticRunExits ==
    /\ UNCHANGED outsideStatic
    /\ static_run = "awaiting"
    /\ text_pc = "done"
    /\ static_run' = "exited"
    /\ UNCHANGED <<audio_file_path, file_sent, file_pc, chunks_left, text_pc,
                   texts_sent>>

-----------------------------------------------------------------------------
(* GeneralToolsHandler (src/routing_system/handlers/general_tools.py)      *)

\* self.user_tools: the api tools of the routing system's WORKFLOW_CONFIG,
\* and next to them a static and a prompt tool as a configuration can add
GeneralTools ==
    [get_weather |->
        Tool("api", <<"location">>, {"location"},
             <<Lit("open-meteo/forecast")>>, "GET", NoTemplate, FALSE, <<>>),
     get_crypto_price |->
        Tool("api", <<"coin">>, {"coin"},
             <<Lit("coingecko/price?ids="), Ph("coin")>>, "GET",
             NoTemplate, FALSE, <<>>),
     get_news |->
        Tool("api", <<"category">>, {"category"},
             <<Lit("inshorts/news?category="), Ph("category")>>, "GET",
             NoTemplate, FALSE, <<>>),
     get_joke |->
        Tool("api", <<>>, {}, <<Lit("joke-api/random_joke")>>, "GET",
             NoTemplate, FALSE, <<>>),
     create_note |->
        Tool("api", <<"title">>, {"title", "body"},
             <<Lit("notes/"), Ph("title")>>, "POST", NoTemplate, FALSE, <<>>),
     cloth_combination |->
        Tool("static", <<>>, {}, NoTemplate, "GET", NoTemplate, FALSE,
             <<"wear", "light", "color", "clothes">>),
     motivation_tool |->
        Tool("prompt", <<"topic">>, {"topic"}, NoTemplate, "GET",
             <<Lit("motivate"), Ph("topic")>>, TRUE, <<>>)]

\* what the network may do to the request: a JSON body that is a non-empty
\* object, a JSON body that is {} / [] / null, no connection or a timeout,
\* a body that is not JSON
GeneralOutcomes == {"ok", "ok_empty", "transport_error", "parse_error"}

\* a result of handle: the exception that left it, or the value returned
GeneralResult(raised, error, truthy, http, content) ==
    [raised |-> raised, error |-> error, truthy |-> truthy, http |-> http,
     content |-> content]

ErrorDict(http, message) == GeneralResult(FALSE, TRUE, TRUE, http, message)

\* an api call whose url is formatted before the try block is entered
call_api_format_outside_try(tool, args, outcome) ==
    IF FormatRaises(tool.api_url, args)
    THEN GeneralResult(TRUE, FALSE, FALSE, 0, <<"KeyError">>)
    ELSE IF outcome \in {"ok", "ok_empty"}
    THEN GeneralResult(FALSE, FALSE, outcome = "ok", 1,
                       <<"json">> \o Format(tool.api_url, args))
    ELSE ErrorDict(1, <<outcome>>)

\* _call_api: url formatting, the request and resp.json() are all inside
\* one try block whose except clause returns {"error": str(exc)}
call_api(tool, args, outcome) ==
    IF FormatRaises(tool.api_url, args)
    THEN ErrorDict(0, <<"KeyError">>)
    ELSE IF outcome \in {"ok", "ok_empty"}
    THEN GeneralResult(FALSE, FALSE, outcome = "ok", 1,
                       <<"json">> \o Format(tool.api_url, args))
    ELSE ErrorDict(1, <<outcome>>)

\* handle(tool_name, **args)
handle(user_tools_of, tool_name, args, outcome) ==
    IF tool_name \notin DOMAIN user_tools_of
    THEN ErrorDict(0, <<"Tool", tool_name, "not found">>)
    ELSE IF user_tools_of[tool_name].type = "api"
    THEN call_api(user_tools_of[tool_name], args, outcome)
    ELSE ErrorDict(0, <<"Unsupported tool type:", user_tools_of[tool_name].type>>)

\* the calls the live model may make: a tool of the handler with any
\* subset of its declared parameters, or a name it does not hold
GeneralCalls ==
    UNION {{[name |-> n, id |-> 1, args |-> [q \in S |-> ModelValue(q)]] :
              S \in SUBSET GeneralTools[n].properties} : n \in DOMAIN GeneralTools}
      \cup {[name |-> UnknownTool, id |-> 1, args |-> <<>>]}

NoResult == GeneralResult(FALSE, FALSE, FALSE, 0, <<>>)

GeneralIdle ==
    /\ gen_call = [name |-> UnknownTool, id |-> 0, args |-> <<>>]
    /\ gen_outcome = "ok"
    /\ gen_result = NoResult
    /\ gen_responses = <<>>
    /\ gen_pc = "idle"

\* receive_audio has a function call at hand that reaches the else branch
GeneralInit ==
    /\ gen_call \in GeneralCalls
    /\ gen_outcome \in GeneralOutcomes
    /\ gen_result = NoResult
    /\ gen_responses = <<>>
    /\ gen_pc = "call"

\* result = general_handler.handle(fc.name, **fc.args)
GeneralHandle ==
    /\ UNCHANGED outsideGeneral
    /\ gen_pc = "call"
    /\ gen_result' = handle(GeneralTools, gen_call.name, gen_call.args, gen_outcome)
    /\ gen_pc' = IF gen_result'.raised THEN "raised" ELSE "returned"
    /\ UNCHANGED <<gen_call, gen_outcome, gen_responses>>

\* if result: await self.session.send(LiveClientToolResponse(...))
GeneralRespond ==
    /\ UNCHANGED outsideGeneral
    /\ gen_pc = "returned"
    /\ gen_responses' =
         IF gen_result.truthy
         THEN Append(gen_responses, FunctionResponse(gen_call.name, gen_call.id))
         ELSE gen_responses
    /\ gen_pc' = "done"
    /\ UNCHANGED <<gen_call, gen_outcome, gen_result>>

-----------------------------------------------------------------------------
(* dynamic_api_call (src/test4.py)                                         *)

\* an endpoint configuration; id_field None is the empty string
Endpoint(method, id_field, success_message, properties) ==
    [method |-> method, id_field |-> id_field,
     success_message |-> success_message, properties |-> properties]

\* TOOL_ENDPOINTS, with the parameters each declaration names
TOOL_ENDPOINTS ==
    [create_user |->
        Endpoint("POST", "", <<Lit("User"), Ph("name"), Lit("created successfully")>>,
                 {"name", "email"}),
     create_order |->
        Endpoint("POST", "",
                 <<Lit("Order for"), Ph("product"), Lit("quantity:"),
                   Ph("quantity"), Lit("created successfully")>>,
                 {"product", "quantity"}),
     update_user |->
        Endpoint("PATCH", "user_id",
                 <<Lit("User"), Ph("user_id"), Lit("updated successfully")>>,
                 {"user_id", "name"}),
     update_order |->
        Endpoint("PATCH", "order_id",
                 <<Lit("Order"), Ph("order_id"), Lit("updated successfully")>>,
                 {"order_id", "status"})]

\* what the network may do to the request: a 2xx answer with a JSON body,
\* an error status (raise_for_status), no connection or a timeout, a body
\* that is not JSON
DynamicOutcomes == {"ok", "http_error", "transport_error", "parse_error"}

DynamicResult(success, message, method, http, url) ==
    [success |-> success, message |-> message, method |-> method,
     http |-> http, url |-> url]

\* the value an argument of the model has in the call
ArgValue(q) == <<"value_of_" \o q>>

\* kwargs after kwargs.pop(id_field, None)
Popped(kwargs, id_field) ==
    [q \in DOMAIN kwargs \ {id_field} |-> kwargs[q]]

\* dynamic_api_call(function_name, **kwargs): for a PATCH tool the id is
\* popped from kwargs to build the url; the payload and, inside the try
\* block, the success message are then built from what is left of kwargs
dynamic_api_call(function_name, kwargs, outcome) ==
    IF function_name \notin DOMAIN TOOL_ENDPOINTS
    THEN DynamicResult(FALSE, <<"Unknown function">>, "UNKNOWN", 0, <<>>)
    ELSE LET config == TOOL_ENDPOINTS[function_name]
             by_id == config.method = "PATCH" /\ config.id_field # ""
             rest == IF by_id THEN Popped(kwargs, config.id_field) ELSE kwargs
             url == IF by_id /\ config.id_field \in DOMAIN kwargs
                    THEN <<function_name>> \o kwargs[config.id_field]
                    ELSE <<function_name>>
         IN IF by_id /\ config.id_field \notin DOMAIN kwargs
            THEN DynamicResult(FALSE, <<"Missing required field">>, config.method, 0, <<>>)
            ELSE IF config.method \notin {"POST", "PATCH"}
            THEN DynamicResult(FALSE, <<"Unsupported HTTP method">>, config.method, 0, <<>>)
            ELSE IF outcome # "ok"
            THEN DynamicResult(FALSE, <<"API call failed", outcome>>, config.method, 1, url)
            ELSE IF FormatRaises(config.success_message, rest)
            THEN DynamicResult(FALSE, <<"API call failed", "KeyError">>, config.method, 1, url)
            ELSE DynamicResult(TRUE, Format(config.success_message, rest),
                               config.method, 1, url)

\* the calls the live model may make: a configured tool with any subset of
\* its parameters, or a function that is not configured
DynamicCalls ==
    UNION {{[name |-> n, kwargs |-> [q \in S |-> ArgValue(q)]] :
              S \in SUBSET TOOL_ENDPOINTS[n].properties} : n \in DOMAIN TOOL_ENDPOINTS}
      \cup {[name |-> UnknownTool, kwargs |-> <<>>]}

NoDynamicResult == DynamicResult(FALSE, <<>>, "UNKNOWN", 0, <<>>)

DynamicIdle ==
    /\ dyn_call = [name |-> UnknownTool, kwargs |-> <<>>]
    /\ dyn_outcome = "ok"
    /\ dyn_result = NoDynamicResult
    /\ dyn_pc = "idle"

DynamicInit ==
    /\ dyn_call \in DynamicCalls
    /\ dyn_outcome \in DynamicOutcomes
    /\ dyn_result = NoDynamicResult
    /\ dyn_pc = "call"

\* result = dynamic_api_call(fc.name, **fc.args)
DynamicApiCall ==
    /\ UNCHANGED outsideDynamic
    /\ dyn_pc = "call"
    /\ dyn_result' = dynamic_api_call(dyn_call.name, dyn_call.kwargs, dyn_outcome)
    /\ dyn_pc' = "returned"
    /\ UNCHANGED <<dyn_call, dyn_outcome>>

-----------------------------------------------------------------------------
(* EnhancedVoiceDetector (src/voice_detector_enhanced.py)                  *)

\* main(): silence_duration=5.0, in seconds
SilenceDuration == 5

MaxReads == 5

\* the seconds a blocking read of one chunk can take to return
Ticks == {1, 3}

NoTime == [set |-> FALSE, t |-> 0]
At(t) == [set |-> TRUE, t |-> t]

Chunk(speech, at) == [speech |-> speech, at |-> at]

DetectorIdle ==
    /\ vad_pc = "idle"
    /\ is_recording = FALSE
    /\ audio_frames = <<>>
    /\ speech_detected = FALSE
    /\ last_speech_time = NoTime
    /\ clock = 0
    /\ heard = <<>>
    /\ auto_stopped = FALSE
    /\ vad_stream = "None"
    /\ stream_calls = <<>>

\* __init__, and main() about to call start_recording
DetectorInit ==
    /\ vad_pc = "start"
    /\ is_recording = FALSE
    /\ audio_frames = <<>>
    /\ speech_detected = FALSE
    /\ last_speech_time = NoTime
    /\ clock = 0
    /\ heard = <<>>
    /\ auto_stopped = FALSE
    /\ vad_stream = "None"
    /\ stream_calls = <<>>

\* start_recording up to the loop: the fields are reset and the capture
\* stream is opened; audio.open may raise, which main() catches
StartRecording ==
    /\ UNCHANGED outsideDetector
    /\ vad_pc = "start"
    /\ is_recording' = TRUE
    /\ audio_frames' = <<>>
    /\ last_speech_time' = NoTime
    /\ speech_detected' = FALSE
    /\ \/ /\ vad_stream' = "stream"
          /\ stream_calls' = Append(stream_calls, "open")
          /\ vad_pc' = "loop"
       \/ /\ vad_pc' = "returned"
          /\ UNCHANGED <<vad_stream, stream_calls>>
    /\ UNCHANGED <<clock, heard, auto_stopped>>

\* the calls stop_recording and cleanup make on self.stream
StopAndClose(calls) ==
    IF vad_stream # "None" THEN calls \o <<"stop_stream", "close">> ELSE calls

\* stop_recording: is_recording = False, the stream is stopped and closed;
\* self.stream keeps the closed stream object
StopRecording ==
    /\ is_recording' = FALSE
    /\ stream_calls' = StopAndClose(stream_calls)
    /\ UNCHANGED vad_stream

\* the silence branch on a chunk read at time now
SilenceElapsed(now) == now - last_speech_time.t

\* an iteration that buffers every chunk it reads
ReadChunkBuffersAll ==
    /\ UNCHANGED outsideDetector
    /\ vad_pc = "loop"
    /\ is_recording
    /\ Len(heard) < MaxReads
    /\ \E speech \in BOOLEAN : \E dt \in Ticks :
         LET now == clock + dt
             n == Len(heard) + 1
         IN /\ clock' = now
            /\ heard' = Append(heard, Chunk(speech, now))
            /\ audio_frames' = Append(audio_frames, n)
            /\ IF speech
               THEN /\ speech_detected' = TRUE
                    /\ last_speech_time' = At(now)
                    /\ UNCHANGED <<is_recording, auto_stopped, vad_pc,
                                   vad_stream, stream_calls>>
               ELSE /\ UNCHANGED <<speech_detected, last_speech_time>>
                    /\ IF speech_detected /\ last_speech_time.set
                          /\ SilenceElapsed(now) >= SilenceDuration
                       THEN /\ StopRecording
                            /\ auto_stopped' = TRUE
                            /\ vad_pc' = "returned"
                       ELSE UNCHANGED <<is_recording, auto_stopped, vad_pc,
                                        vad_stream, stream_calls>>

\* one iteration of `while self.is_recording` (lines 209-238): a chunk is
\* read; a speech chunk sets speech_detected and last_speech_time and is
\* buffered; a silent chunk is buffered only after speech, and stops the
\* recording when the silence has lasted silence_duration
ReadChunk ==
    /\ UNCHANGED outsideDetector
    /\ vad_pc = "loop"
    /\ is_recording
    /\ Len(heard) < MaxReads
    /\ \E speech \in BOOLEAN : \E dt \in Ticks :
         LET now == clock + dt
             n == Len(heard) + 1
         IN /\ clock' = now
            /\ heard' = Append(heard, Chunk(speech, now))
            /\ IF speech
               THEN /\ speech_detected' = TRUE
                    /\ last_speech_time' = At(now)
                    /\ audio_frames' = Append(audio_frames, n)
                    /\ UNCHANGED <<is_recording, auto_stopped, vad_pc,
                                   vad_stream, stream_calls>>
               ELSE /\ UNCHANGED <<speech_detected, last_speech_time>>
                    /\ audio_frames' = IF speech_detected
                                       THEN Append(audio_frames, n)
                                       ELSE audio_frames
                    /\ IF speech_detected /\ last_speech_time.set
                          /\ SilenceElapsed(now) >= SilenceDuration
                       THEN /\ StopRecording
                            /\ auto_stopped' = TRUE
                            /\ vad_pc' = "returned"
                       ELSE UNCHANGED <<is_recording, auto_stopped, vad_pc,
                                        vad_stream, stream_calls>>

\* KeyboardInterrupt in the loop (lines 240-242): stop_recording is called
KeyboardInterrupt ==
    /\ UNCHANGED outsideDetector
    /\ vad_pc = "loop"
    /\ StopRecording
    /\ vad_pc' = "returned"
    /\ UNCHANGED <<audio_frames, speech_detected, last_speech_time, clock,
                   heard, auto_stopped>>

\* stream.read raises (the device is gone): the exception leaves
\* start_recording and main() prints it
ReadFails ==
    /\ UNCHANGED outsideDetector
    /\ vad_pc = "loop"
    /\ vad_pc' = "returned"
    /\ UNCHANGED <<is_recording, audio_frames, speech_detected,
                   last_speech_time, clock, heard, auto_stopped, vad_stream,
                   stream_calls>>

\* main()'s finally: cleanup() stops and closes self.stream when it is not
\* None, then terminates PyAudio
Cleanup ==
    /\ UNCHANGED outsideDetector
    /\ vad_pc = "returned"
    /\ stream_calls' = StopAndClose(stream_calls)
    /\ vad_pc' = "cleaned"
    /\ UNCHANGED <<is_recording, audio_frames, speech_detected,
                   last_speech_time, clock, heard, auto_stopped, vad_stream>>

\* the components that are not part of the specification at hand
ExtraIdle ==
    /\ LoopIdle
    /\ StaticIdle
    /\ GeneralIdle
    /\ DynamicIdle
    /\ DetectorIdle

ToolNext ==
    \/ SkipUnknown
    \/ MarkPending
    \/ ExecApi
    \/ ExecPrompt
    \/ ExecRag
    \/ ExecStatic
    \/ Aggregate

\* execute_tool_calls on every batch and history of the bounds, the session
\* not started
ToolsInit ==
    /\ ToolInit
    /\ AudioInit
    /\ CallInit
    /\ ChatInit
    /\ DisplayInit
    /\ ApiIdle
    /\ RouteIdle
    /\ LoadIdle
    /\ FillIdle
    /\ ExtraIdle

SpecTools == ToolsInit /\ [][ToolNext]_vars

\* the engine between invocations: the history is the chatbot's
EngineIdle ==
    /\ tool_calls = <<>>
    /\ idx = 1
    /\ pending_params = <<>>
    /\ static_texts = <<>>
    /\ summary_items = <<>>
    /\ all_static = TRUE
    /\ ret = Return("None", <<>>)
    /\ http_calls = 0
    /\ aux_calls = 0
    /\ rag_calls = <<>>
    /\ registry = USER_TOOLS
    /\ resolved = <<>>

\* the components around the engine, none of them started
OthersIdle ==
    /\ AudioInit
    /\ CallInit
    /\ ChatInit
    /\ DisplayInit
    /\ ApiIdle
    /\ RouteIdle
    /\ LoadIdle
    /\ FillIdle

\* the chatbot loop from its first iteration, every outcome of every turn
ChatLoopInit ==
    /\ history = <<>>
    /\ EngineIdle
    /\ OthersIdle
    /\ StaticIdle
    /\ GeneralIdle
    /\ DynamicIdle
    /\ DetectorIdle
    /\ LoopInit

ChatLoopNext ==
    \/ UserExits
    \/ UserTurn
    \/ FinishTurn

SpecChatLoop == ChatLoopInit /\ [][ChatLoopNext]_vars

\* trim_history_blocks on every history and max_users of the bounds
TrimSpecInit ==
    /\ history \in TrimHistories
    /\ EngineIdle
    /\ OthersIdle
    /\ StaticIdle
    /\ GeneralIdle
    /\ DynamicIdle
    /\ DetectorIdle
    /\ TrimInit

TrimNext ==
    \/ TrimHistory

SpecTrim == TrimSpecInit /\ [][TrimNext]_vars

\* the file-playback client on every kind of path; every task that can
\* take a step is run, and the user types "q" once asked
StaticSpecInit ==
    /\ history = <<>>
    /\ EngineIdle
    /\ OthersIdle
    /\ LoopIdle
    /\ GeneralIdle
    /\ DynamicIdle
    /\ DetectorIdle
    /\ StaticInit

StaticNext ==
    \/ FileChecked
    \/ FileConverted
    \/ FileChunkSent
    \/ FileEndSent
    \/ TextWaits
    \/ TextTyped
    \/ TextQuit
    \/ StaticRunExits

SpecStatic ==
    /\ StaticSpecInit
    /\ [][StaticNext]_vars
    /\ WF_vars(FileChecked)
    /\ WF_vars(FileConverted)
    /\ WF_vars(FileChunkSent)
    /\ WF_vars(FileEndSent)
    /\ WF_vars(TextWaits /\ text_pc' # text_pc)
    /\ WF_vars(TextQuit)
    /\ WF_vars(StaticRunExits)

\* GeneralToolsHandler.handle on every call and network outcome of the
\* bounds, and the receive task's use of the result
GeneralSpecInit ==
    /\ history = <<>>
    /\ EngineIdle
    /\ OthersIdle
    /\ LoopIdle
    /\ StaticIdle
    /\ DynamicIdle
    /\ DetectorIdle
    /\ GeneralInit

GeneralNext ==
    \/ GeneralHandle
    \/ GeneralRespond

SpecGeneral == GeneralSpecInit /\ [][GeneralNext]_vars

\* dynamic_api_call on every call and network outcome of the bounds
DynamicSpecInit ==
    /\ history = <<>>
    /\ EngineIdle
    /\ OthersIdle
    /\ LoopIdle
    /\ StaticIdle
    /\ GeneralIdle
    /\ DetectorIdle
    /\ DynamicInit

DynamicNext ==
    \/ DynamicApiCall

SpecDynamic == DynamicSpecInit /\ [][DynamicNext]_vars

\* a run of the voice detector's main(): every sequence of speech and
\* silence chunks of the bounds, an interrupt or a failing read at any time
DetectorSpecInit ==
    /\ history = <<>>
    /\ EngineIdle
    /\ OthersIdle
    /\ LoopIdle
    /\ StaticIdle
    /\ GeneralIdle
    /\ DynamicIdle
    /\ DetectorInit

DetectorNext ==
    \/ StartRecording
    \/ ReadChunk
    \/ KeyboardInterrupt
    \/ ReadFails
    \/ Cleanup

SpecDetector == DetectorSpecInit /\ [][DetectorNext]_vars

\* the session, the engine not running
SessionInit ==
    /\ AudioInit
    /\ CallInit
    /\ ChatInit
    /\ DisplayInit
    /\ ApiIdle
    /\ RouteIdle
    /\ LoadIdle
    /\ FillIdle
    /\ tool_calls = <<>>
    /\ history = <<>>
    /\ idx = 1
    /\ pending_params = <<>>
    /\ static_texts = <<>>
    /\ summary_items = <<>>
    /\ all_static = TRUE
    /\ ret = Return("None", <<>>)
    /\ http_calls = 0
    /\ aux_calls = 0
    /\ rag_calls = <<>>
    /\ registry = USER_TOOLS
    /\ resolved = <<>>
    /\ ExtraIdle

\* the calls of a chatbot turn: a registered tool called with every
\* parameter it declares or with none, or an unknown name
TurnCallsOf(name) ==
    {[name |-> name, args |-> [p \in S |-> ModelValue(p)]] :
        S \in {{}, USER_TOOLS[name].properties}}

TurnCalls ==
    UNION {TurnCallsOf(n) : n \in ToolNames}
      \cup {[name |-> UnknownTool, args |-> <<>>]}

TurnBatches == UNION {[1..n -> TurnCalls] : n \in 0..MaxBatch}

\* a chatbot turn: execute_tool_calls on the response, then the chatbot's
\* handling of what it returned
TurnInit ==
    /\ tool_calls \in TurnBatches
    /\ history \in Histories
    /\ idx = 1
    /\ pending_params = <<>>
    /\ static_texts = <<>>
    /\ summary_items = <<>>
    /\ all_static = TRUE
    /\ ret = IF tool_calls = <<>> THEN Return("None", <<>>)
             ELSE Return("running", <<>>)
    /\ http_calls = 0
    /\ aux_calls = 0
    /\ rag_calls = <<>>
    /\ registry = USER_TOOLS
    /\ resolved = [i \in 1..Len(tool_calls) |-> "none"]
    /\ AudioInit
    /\ CallInit
    /\ ChatInit
    /\ DisplayInit
    /\ ApiIdle
    /\ RouteIdle
    /\ LoadIdle
    /\ FillIdle
    /\ ExtraIdle

TurnNext ==
    \/ SkipUnknown
    \/ MarkPending
    \/ ExecApi
    \/ ExecPrompt
    \/ ExecRag
    \/ ExecStatic
    \/ Aggregate
    \/ ChatbotAnswer

SpecTurn == TurnInit /\ [][TurnNext]_vars

\* one iteration of the parameter loop on every parameter, supplied value
\* and history of the bounds; the engine's loop and the session not started
ParamsInit ==
    /\ FillInit
    /\ history \in TestHistories
    /\ tool_calls = <<>>
    /\ idx = 1
    /\ pending_params = <<>>
    /\ static_texts = <<>>
    /\ summary_items = <<>>
    /\ all_static = TRUE
    /\ ret = Return("None", <<>>)
    /\ http_calls = 0
    /\ aux_calls = 0
    /\ rag_calls = <<>>
    /\ registry = USER_TOOLS
    /\ resolved = <<>>
    /\ AudioInit
    /\ CallInit
    /\ ChatInit
    /\ DisplayInit
    /\ ApiIdle
    /\ RouteIdle
    /\ LoadIdle
    /\ ExtraIdle

ParamsNext ==
    \/ ExtractValue
    \/ FillParam

SpecParams == ParamsInit /\ [][ParamsNext]_vars

\* the whole session: every task, failures and the user's quit
SessionNext ==
    \/ ListenOpened
    \/ ListenRead
    \/ ListenPutResume
    \/ FramesGrab
    \/ FramesEnd
    \/ FramesPutResume
    \/ SendGet
    \/ SendDone
    \/ ConsoleText
    \/ ConsoleSendDone
    \/ RecvAudio
    \/ RecvTurnComplete
    \/ RecvToolCall
    \/ DispatchCall
    \/ ToolResponseSent
    \/ ToolCallDone
    \/ PlayOpened
    \/ PlayGet
    \/ PlayWriteDone
    \/ TaskFails
    \/ UserQuits
    \/ GroupAbort
    \/ ExceptCancelled
    \/ ExceptGroup

SpecSession == SessionInit /\ [][SessionNext]_vars

\* capture, send, receive and playback while no task fails: the tasks that
\* read or write ai_speaking and out_queue (no camera frames, no console text)
HalfDuplexNext ==
    \/ ListenOpened
    \/ ListenRead
    \/ ListenPutResume
    \/ SendGet
    \/ SendDone
    \/ RecvAudio
    \/ PlayOpened
    \/ PlayGet
    \/ PlayWriteDone

SpecHalfDuplex == SessionInit /\ [][HalfDuplexNext]_vars

\* the producers and the consumer of out_queue while no task fails and
\* nothing is played (ai_speaking stays false, so no frame is suppressed)
OutboundNext ==
    \/ ListenOpened
    \/ ListenRead
    \/ ListenPutResume
    \/ FramesGrab
    \/ FramesEnd
    \/ FramesPutResume
    \/ SendGet
    \/ SendDone

SpecOutbound == SessionInit /\ [][OutboundNext]_vars

\* the producer and the consumer of audio_in_queue while no task fails
InboundNext ==
    \/ RecvAudio
    \/ RecvTurnComplete
    \/ PlayOpened
    \/ PlayGet
    \/ PlayWriteDone

SpecInbound == SessionInit /\ [][InboundNext]_vars

\* receive_audio alone: audio data and tool-call events of a turn
ToolCallNext ==
    \/ RecvAudio
    \/ RecvToolCall
    \/ DispatchCall
    \/ ToolResponseSent
    \/ ToolCallDone

SpecToolCalls == SessionInit /\ [][ToolCallNext]_vars

\* run() with task failures and the user's quit (no camera frames, no
\* console text, no turn completion)
RunNext ==
    \/ ListenOpened
    \/ ListenRead
    \/ ListenPutResume
    \/ SendGet
    \/ SendDone
    \/ RecvAudio
    \/ PlayOpened
    \/ PlayGet
    \/ PlayWriteDone
    \/ TaskFails
    \/ UserQuits
    \/ GroupAbort
    \/ ExceptCancelled
    \/ ExceptGroup

SpecRun == SessionInit /\ [][RunNext]_vars

\* run() until it is over, with the tasks suspended where the quit or a
\* failure can find them: in input(), in a device call on a worker thread,
\* in put() on the full out_queue, in get() on an empty queue, in
\* session.send (no inbound audio)
QuitNext ==
    \/ ListenOpened
    \/ ListenRead
    \/ ListenPutResume
    \/ SendGet
    \/ SendDone
    \/ PlayOpened
    \/ TaskFails
    \/ UserQuits
    \/ GroupAbort
    \/ ExceptCancelled
    \/ ExceptGroup

\* the event loop runs every callback it has scheduled: once a task of the
\* group is done the TaskGroup's exit runs, and once the group has unwound
\* the matching except clause of run() runs
SpecQuit ==
    /\ SessionInit
    /\ [][QuitNext]_vars
    /\ WF_vars(GroupAbort)
    /\ WF_vars(ExceptCancelled)
    /\ WF_vars(ExceptGroup)

\* the conversion alone, on every configuration of the bounds
ConvertInit ==
    /\ LoadInit
    /\ AudioInit
    /\ CallInit
    /\ ChatInit
    /\ DisplayInit
    /\ ApiIdle
    /\ RouteIdle
    /\ FillIdle
    /\ tool_calls = <<>>
    /\ history = <<>>
    /\ idx = 1
    /\ pending_params = <<>>
    /\ static_texts = <<>>
    /\ summary_items = <<>>
    /\ all_static = TRUE
    /\ ret = Return("None", <<>>)
    /\ http_calls = 0
    /\ aux_calls = 0
    /\ rag_calls = <<>>
    /\ registry = USER_TOOLS
    /\ resolved = <<>>
    /\ ExtraIdle

ConvertNext ==
    \/ ConvertIntegration
    \/ ConvertReturn

SpecConvert == ConvertInit /\ [][ConvertNext]_vars

\* receive_audio alone: audio data and transcriptions of the turns
TranscriptNext ==
    \/ RecvAudio
    \/ RecvTranscription

SpecTranscript == SessionInit /\ [][TranscriptNext]_vars

\* call_custom_api alone, on every tool and argument map of the test sets
ApiCallInit ==
    /\ ApiInit
    /\ LoadIdle
    /\ DisplayInit
    /\ RouteIdle
    /\ AudioInit
    /\ CallInit
    /\ FillIdle
    /\ chat = "waiting"
    /\ answer = Answer("none", <<>>)
    /\ summary_calls = 0
    /\ tool_calls = <<>>
    /\ history = <<>>
    /\ idx = 1
    /\ pending_params = <<>>
    /\ static_texts = <<>>
    /\ summary_items = <<>>
    /\ all_static = TRUE
    /\ ret = Return("None", <<>>)
    /\ http_calls = 0
    /\ aux_calls = 0
    /\ rag_calls = <<>>
    /\ registry = USER_TOOLS
    /\ resolved = <<>>
    /\ ExtraIdle

ApiCallNext ==
    \/ CallCustomApi

SpecApi == ApiCallInit /\ [][ApiCallNext]_vars

\* one routed query, on both routers and every answer of the classifier
RouterInit ==
    /\ RouteInit
    /\ ApiIdle
    /\ LoadIdle
    /\ DisplayInit
    /\ AudioInit
    /\ CallInit
    /\ FillIdle
    /\ chat = "waiting"
    /\ answer = Answer("none", <<>>)
    /\ summary_calls = 0
    /\ tool_calls = <<>>
    /\ history = <<>>
    /\ idx = 1
    /\ pending_params = <<>>
    /\ static_texts = <<>>
    /\ summary_items = <<>>
    /\ all_static = TRUE
    /\ ret = Return("None", <<>>)
    /\ http_calls = 0
    /\ aux_calls = 0
    /\ rag_calls = <<>>
    /\ registry = USER_TOOLS
    /\ resolved = <<>>
    /\ ExtraIdle

RouterNext ==
    \/ Classify
    \/ Route

SpecRouter == RouterInit /\ [][RouterNext]_vars

\* a session of the chatbot: execute_tool_calls invoked again and again
RegistryInit ==
    /\ tool_calls \in SessionBatches
    /\ history \in Histories
    /\ idx = 1
    /\ pending_params = <<>>
    /\ static_texts = <<>>
    /\ summary_items = <<>>
    /\ all_static = TRUE
    /\ ret = IF tool_calls = <<>> THEN Return("None", <<>>)
             ELSE Return("running", <<>>)
    /\ http_calls = 0
    /\ aux_calls = 0
    /\ rag_calls = <<>>
    /\ registry = USER_TOOLS
    /\ resolved = [i \in 1..Len(tool_calls) |-> "none"]
    /\ AudioInit
    /\ CallInit
    /\ ChatInit
    /\ DisplayInit
    /\ ApiIdle
    /\ RouteIdle
    /\ LoadIdle
    /\ FillIdle
    /\ ExtraIdle

RegistryNext ==
    \/ SkipUnknown
    \/ MarkPending
    \/ ExecApi
    \/ ExecPrompt
    \/ ExecRag
    \/ ExecStatic
    \/ Aggregate
    \/ Reenter

SpecRegistry == RegistryInit /\ [][RegistryNext]_vars

\* execute_tool_calls under a registry with optional parameters in
\* templates
DispatchInit ==
    /\ tool_calls \in DispatchBatches
    /\ history \in Histories
    /\ idx = 1
    /\ pending_params = <<>>
    /\ static_texts = <<>>
    /\ summary_items = <<>>
    /\ all_static = TRUE
    /\ ret = IF tool_calls = <<>> THEN Return("None", <<>>)
             ELSE Return("running", <<>>)
    /\ http_calls = 0
    /\ aux_calls = 0
    /\ rag_calls = <<>>
    /\ registry = OptionalParamTools
    /\ resolved = [i \in 1..Len(tool_calls) |-> "none"]
    /\ AudioInit
    /\ CallInit
    /\ ChatInit
    /\ DisplayInit
    /\ ApiIdle
    /\ RouteIdle
    /\ LoadIdle
    /\ FillIdle
    /\ ExtraIdle

DispatchNext ==
    \/ MarkPending
    \/ ExecApi
    \/ ExecPrompt
    \/ ExecStatic
    \/ Aggregate

SpecDispatch == DispatchInit /\ [][DispatchNext]_vars

\* the user's input on its way to the session: captured audio and console
\* text, while no task fails and nothing is played
ConsoleNext ==
    \/ ListenOpened
    \/ ListenRead
    \/ ListenPutResume
    \/ SendGet
    \/ SendDone
    \/ ConsoleText
    \/ ConsoleSendDone

SpecConsole == SessionInit /\ [][ConsoleNext]_vars

\* capture and send up to the end of the capture stream, and run()'s exit
\* after it
CaptureNext ==
    \/ ListenOpened
    \/ ListenRead
    \/ ListenPutResume
    \/ StreamEnds
    \/ ListenEndOfStream
    \/ SendGet
    \/ SendDone
    \/ GroupAbort
    \/ ExceptGroup

\* a read handed to a worker thread comes back: the thread is never starved
SpecCapture ==
    /\ SessionInit
    /\ [][CaptureNext]_vars
    /\ WF_vars(ListenEndOfStream)

\* capture, camera, send, receive and playback with no task failure and no
\* quit. The event loop runs every task that is ready (its ready queue is
\* first in, first out), a call handed to a worker thread returns, and a
\* write to the session completes: each step that stays possible is taken
LiveNext ==
    \/ ListenOpened
    \/ ListenRead
    \/ ListenPutResume
    \/ SendGet
    \/ SendDone
    \/ RecvAudio
    \/ PlayOpened
    \/ PlayGet
    \/ PlayWriteDone

SpecLive ==
    /\ SessionInit
    /\ [][LiveNext]_vars
    /\ WF_vars(ListenPutResume)
    /\ WF_vars(SendGet)
    /\ WF_vars(SendDone)
    /\ WF_vars(PlayOpened)
    /\ WF_vars(PlayGet)
    /\ WF_vars(PlayWriteDone)

-----------------------------------------------------------------------------
(* Claims about execute_tool_calls                                         *)

CallHasMissing(call) ==
    /\ call.name \in ToolNames
    /\ missing_of(USER_TOOLS[call.name], parse_fc_args(call), history) # <<>>

BatchHasMissing == \E i \in 1..Len(tool_calls) : CallHasMissing(tool_calls[i])

ToolsWithMissing ==
    {tool_calls[i].name : i \in {j \in 1..Len(tool_calls) : CallHasMissing(tool_calls[j])}}

\* C1: a batch holding a call with a missing required parameter returns
\* "pending_json", its payload is keyed by exactly the tools with a missing
\* parameter, and no HTTP call and no auxiliary-model call is ever made for
\* the batch, wherever the incomplete call stands.
C1_NeedsMoreInput ==
    BatchHasMissing =>
        /\ http_calls = 0
        /\ aux_calls = 0
        /\ ~Running =>
              /\ ret.status = "pending_json"
              /\ DOMAIN ret.value = ToolsWithMissing

Returned == ret.status \notin {"running", "raised"}

\* C2: once execute_tool_calls has returned, every call of the batch has
\* exactly one execution result or exactly one pending-parameter entry of its
\* own (never both, never neither); the retrieval result a rag call returns
\* is counted as that call's result.
C2_ExactlyOneResolution ==
    Returned =>
        \A i \in 1..Len(tool_calls) :
            resolved[i] \in {"result", "error_result", "pending", "rag"}

\* C3: a failure while dispatching one call never leaves execute_tool_calls
\* as an exception, and the calls after it are still processed.
C3_DispatchFailuresLocal ==
    /\ ret.status # "raised"
    /\ (~Running /\ ret.status # "rag_mode") => idx > Len(tool_calls)

-----------------------------------------------------------------------------
(* Claims about the session tasks                                          *)

\* C4: no audio frame is put on out_queue by listen_audio at a moment when
\* ai_speaking is true, in any interleaving of the tasks.
C4_HalfDuplexSuppression == put_speaking = {}

Producers == {"listen_audio", "get_frames"}

Ids(q) == {q[i].id : i \in 1..Len(q)}

HeldIds == {held[t].id : t \in {u \in Producers : pc[u] = "putting"}}

\* every message offered so far is in exactly one place: written to the
\* session, in out_queue, or held by its suspended producer
AllAccounted ==
    /\ Ids(sent) \cup Ids(out_queue) \cup HeldIds = 1..(next_id - 1)
    /\ Len(sent) + Len(out_queue) + Cardinality(HeldIds) = next_id - 1

BackpressureStep ==
    /\ \A t \in Producers :
         /\ (pc[t] # "putting" /\ pc'[t] = "putting") =>
               /\ Len(out_queue) = OutQueueMaxsize
               /\ out_queue' = out_queue
         /\ (pc[t] = "putting" /\ pc'[t] # "putting") =>
               /\ Len(out_queue) < OutQueueMaxsize
               /\ out_queue' = Append(out_queue, held[t])
    /\ Len(out_queue') < Len(out_queue) =>
         /\ pc["send_realtime"] = "get"
         /\ pc'["send_realtime"] = "sending"

\* C5: out_queue never holds more than 5 items; a producer that puts on a
\* full queue is suspended with its item, goes on only when the queue has
\* room again, which only a dequeue by send_realtime makes, and its item is
\* then enqueued: no offered item is lost.
C5_OutboundBackpressure ==
    /\ [](Len(out_queue) <= OutQueueMaxsize /\ AllAccounted)
    /\ [][BackpressureStep]_vars

C5_Witness ==
    /\ pc["listen_audio"] = "putting"
    /\ held["listen_audio"].mime = "audio/pcm"
    /\ Len(out_queue) = OutQueueMaxsize

\* C6: a turn completion empties audio_in_queue in one step: right after it
\* the queue is empty and nothing was played meanwhile, so the queue never
\* holds a chunk received before the latest turn completion.
C6_DrainAtomic ==
    /\ [](\A i \in 1..Len(audio_in_queue) : audio_in_queue[i] > boundary)
    /\ [][boundary' # boundary =>
             audio_in_queue' = <<>> /\ played' = played]_vars

C6_Witness ==
    /\ boundary >= 2
    /\ audio_in_queue = <<>>
    /\ Len(played) < boundary

\* C7: chunks are handed to the output device in arrival order, and no chunk
\* received before a turn completion is handed to it after that completion.
C7_PlaybackOrder ==
    \A i \in 1..Len(played) :
        /\ played[i].chunk > played[i].boundary
        /\ i > 1 => played[i - 1].chunk < played[i].chunk

C7_Witness ==
    \E i \in 2..Len(played) :
        /\ played[i].boundary > played[i - 1].chunk
        /\ played[i].chunk > played[i].boundary

RunOver == run_state \in {"returned", "raised"}
SomeTaskFailed == \E t \in Tasks : task[t] = "failed"

\* C8: when a task of the group has failed, every sibling is cancelled, none
\* is running again, and run() returns.
C8_FailFastGroup ==
    (RunOver /\ SomeTaskFailed) =>
        /\ run_state = "returned"
        /\ \A t \in Tasks : task[t] # "running"

\* C9: when run() is over, by the user's quit or by a failure, no device
\* stream that was opened is still open.
C9_DevicesClosed ==
    RunOver => (audio_stream # "open" /\ out_stream # "open")

\* C10: when run() is over after a task failure, the exception group has
\* been printed.
C10_FailureReported == (RunOver /\ SomeTaskFailed) => reported

QuitPath == task["send_text"] = "done" /\ ~SomeTaskFailed

\* C11: run() leaves its await only when send_text has completed or a task
\* has failed; once the user has typed "q" run() ends, and when it ends with
\* no task failed every other task is cancelled, run() has returned and
\* nothing was reported as an error.
C11_UserQuit ==
    /\ [][(run_state = "awaiting" /\ run_state' # "awaiting") =>
            (task["send_text"] = "done" \/ SomeTaskFailed)]_vars
    /\ []((RunOver /\ QuitPath) =>
            /\ run_state = "returned"
            /\ ~reported
            /\ \A t \in Tasks \ {"send_text"} : task[t] = "cancelled")
    /\ (task["send_text"] = "done" ~> RunOver)

C11_Witness ==
    /\ run_state = "returned"
    /\ QuitPath
    /\ pc["listen_audio"] = "putting"
    /\ pc["send_realtime"] = "sending"
    /\ pc["play_audio"] = "get"

HandlingOver == events_seen > 0 /\ pc["receive_audio"] = "receive"

\* C12: the responses sent for a tool-call event are, in call order, one
\* per function call with that call's name and id, and when receive_audio
\* goes on to the next response every call of the event has its response.
C12_ToolResponses ==
    /\ \A k \in 1..Len(tool_responses) :
         /\ k <= Len(tool_call)
         /\ tool_responses[k] =
               FunctionResponse(tool_call[k].name, tool_call[k].id)
    /\ HandlingOver => Len(tool_responses) = Len(tool_call)

\* what send_realtime has written to the session (send_text writes its
\* text to the session itself, not through out_queue)
FromQueue(msgs) == SelectSeq(msgs, LAMBDA m : m.mime # "text")

\* the messages that went through out_queue, in enqueue order: the ones
\* send_realtime has written, then the ones still queued
OutboundLog == FromQueue(sent) \o out_queue

\* C13: send_realtime writes the items of out_queue in the order they were
\* enqueued, one per step and each once: the written items followed by the
\* queued ones form a log that only ever grows at its end, by an item not
\* in it, and the written part grows by the head of the queue, one item at
\* a time.
C13_OutboundFIFO ==
    [][LET written == FromQueue(sent)
           written_after == FromQueue(sent')
           after == written_after \o out_queue'
       IN /\ \/ after = OutboundLog
             \/ /\ Len(after) = Len(OutboundLog) + 1
                /\ SubSeq(after, 1, Len(OutboundLog)) = OutboundLog
                /\ after[Len(after)].id \notin Ids(OutboundLog)
          /\ Len(written_after) \in {Len(written), Len(written) + 1}
          /\ SubSeq(written_after, 1, Len(written)) = written]_vars

C13_Witness ==
    /\ Len(sent) >= 3
    /\ \E i, j \in 1..Len(sent) : sent[i].mime # sent[j].mime
    /\ Len(out_queue) >= 2
    /\ \E i, j \in 1..Len(out_queue) : out_queue[i].mime # out_queue[j].mime

\* play_audio has started stream.write on a worker thread and has not yet
\* resumed after it
WriteInFlight == pc["play_audio"] = "writing"

EndReported ==
    /\ audio_stream = "ended"
    /\ pc["listen_audio"] = "reading"
    /\ Alive("listen_audio")

C21_CaptureTermination ==
    /\ EndReported ~> task["listen_audio"] # "running"
    /\ [][task["listen_audio"] # "running"
            => task'["listen_audio"] = task["listen_audio"]]_vars

C21_Witness ==
    /\ task["listen_audio"] = "failed"
    /\ audio_stream = "ended"
    /\ Len(sent) >= 1
    /\ out_queue # <<>>

\* the messages a step produces: the input read in that step
Produced(n, m) == {Msg(i, mime) : i \in n..(m - 1), mime \in {"audio/pcm", "image/jpeg", "text"}}

\* C22: every outbound message (audio frame or console text) is placed on
\* out_queue and written to the session once, by send_realtime alone: a
\* step that takes in a new message leaves it on the queue (or held by its
\* producer suspended in put()), and a step that writes to the session
\* writes the head of the queue, taken by send_realtime.
C22_AllThroughQueue ==
    [][/\ next_id' # next_id
          => \E m \in Produced(next_id, next_id') :
                \/ out_queue' = Append(out_queue, m)
                \/ \E t \in DOMAIN held : held'[t] = m /\ held[t] = NoMsg
       /\ sent' # sent
          => /\ pc["send_realtime"] = "get"
             /\ pc'["send_realtime"] = "sending"
             /\ out_queue # <<>>
             /\ sent' = Append(sent, Head(out_queue))
             /\ out_queue' = Tail(out_queue)]_vars

\* what the claim calls malformed: a descriptor with no id, an api tool
\* with no url, a prompt tool with no template
Malformed(integration) ==
    \/ Get(integration, "tool_id", "") = ""
    \/ tool_type_of(integration) = "api" /\ Get(integration, "url", "") = ""
    \/ /\ tool_type_of(integration) = "prompt"
       /\ Get(integration, "response_prompt", <<>>) = <<>>

\* C23: the conversion returns a registry only for a configuration with no
\* malformed descriptor, and in the registry every descriptor is under its
\* own id: no entry has replaced another.
C23_LoadValidation ==
    load_state = "loaded"
    => /\ \A i \in 1..Len(integrations) : ~Malformed(integrations[i])
       /\ \A i, j \in 1..Len(integrations) :
             i # j => tool_key_of(integrations[i]) # tool_key_of(integrations[j])
       /\ \A i \in 1..Len(integrations) :
             /\ tool_key_of(integrations[i]) \in DOMAIN user_tools
             /\ user_tools[tool_key_of(integrations[i])]
                  = tool_entry_of(integrations[i])

\* the transcriptions printed so far, by position in the display
TextsAt == {i \in 1..Len(display) : display[i].kind = "text"}

\* the speaker recorded when the text at position i arrived: the role of
\* the text printed before it, if any
SpeakerBefore(i) ==
    LET earlier == {j \in TextsAt : j < i}
    IN IF earlier = {} THEN NoSpeaker
       ELSE display[CHOOSE j \in earlier : \A k \in earlier : k <= j].role

BoundaryBefore(i) ==
    i > 1 /\ display[i - 1] = Boundary(display[i].role)

\* C24: the display is edge-triggered: a transcription is preceded by a
\* speaker boundary exactly when its role differs from the speaker
\* recorded before it (or none was recorded), a boundary is printed for
\* nothing else, and last_speaker is the role of the latest transcription.
C24_EdgeTriggered ==
    /\ \A i \in TextsAt : BoundaryBefore(i) <=> SpeakerBefore(i) # display[i].role
    /\ \A i \in 1..Len(display) :
          display[i].kind = "boundary"
          => i + 1 \in TextsAt /\ display[i + 1].role = display[i].role
    /\ last_speaker = SpeakerBefore(Len(display) + 1)

C24_Witness ==
    /\ Len(display) >= 5
    /\ \E i \in TextsAt : i > 1 /\ display[i - 1] = Text(display[i].role)
    /\ \E i \in TextsAt : i > 2 /\ BoundaryBefore(i)
                            /\ SpeakerBefore(i) \in Speakers
    /\ audio_in_queue # <<>>

\* the url the claim describes: the template with every placeholder
\* replaced by the text of the argument of that name
RECURSIVE Substituted(_, _)
Substituted(template, args) ==
    IF template = <<>> THEN <<>>
    ELSE (IF Head(template).ph THEN Str(args[Head(template).s])
          ELSE <<Head(template).s>>) \o Substituted(Tail(template), args)

ConfiguredGet == Get(api_tool, "http_method", "GET") \in {"GET", "get"}

CoinExample ==
    /\ api_tool.api_url = <<Lit("https://x/"), Ph("coin")>>
    /\ "coin" \in DOMAIN api_args
    /\ api_args["coin"] = <<"bitcoin">>

\* C25: call_custom_api issues one request; its url is the template with
\* every {param} replaced by the argument of that name (https://x/{coin}
\* with coin = bitcoin gives https://x/bitcoin); a GET has no body and any
\* other method has the arguments as its JSON body.
C25_RequestShape ==
    api_pc = "returned"
    => /\ Len(api_sent) = 1
       /\ api_sent[1].url = Substituted(api_tool.api_url, api_args)
       /\ CoinExample => api_sent[1].url = <<"https://x/", "bitcoin">>
       /\ ConfiguredGet => ~api_sent[1].body.present
       /\ ~ConfiguredGet => /\ api_sent[1].body.present
                            /\ api_sent[1].body.json = api_args

C25_Witness ==
    /\ api_pc = "returned"
    /\ CoinExample
    /\ api_tool = [api_url |-> <<Lit("https://x/"), Ph("coin")>>,
                    http_method |-> "post"]
    /\ DOMAIN api_args = {"coin", "a"}

\* the classification call raised, or what it returned cannot be parsed
ClassificationFailed == aux_reply.kind \in {"raises", "no_text", "not_json"}

\* C26: a failed classification degrades and never propagates: it yields
\* intent "general" with confidence 0.0, the router returns the general
\* response and invokes no handler; and whatever the classifier answers, a
\* handler is invoked only for its own intent with confidence above 0.6.
C26_ClassificationDegrades ==
    /\ ClassificationFailed
       => /\ route_pc # "raised"
          /\ classification.dict
          /\ classification.fields["intent"] = "general"
          /\ classification.fields["confidence"] = Num(0)
          /\ route_pc = "returned" => route_ret = "general" /\ invoked = <<>>
    /\ \A i \in 1..Len(invoked) :
          /\ classification.dict
          /\ "intent" \in DOMAIN classification.fields
          /\ classification.fields["intent"] = invoked[i]
          /\ "confidence" \in DOMAIN classification.fields
          /\ classification.fields["confidence"].num
          /\ classification.fields["confidence"].v >= 7

C26_Witness ==
    /\ route_pc = "returned"
    /\ aux_reply.kind = "not_json"
    /\ router = "master_router"

InDeviceOp(t) == task[t] = "running" /\ pc[t] \in DeviceOps[t]

Scheduled(t) == task[t] = "running" /\ run_state = "awaiting"

C28_RegistryReadOnly ==
    /\ [](registry = USER_TOOLS)
    /\ [][registry' = registry]_vars

\* a later invocation has reported missing parameters, executed a static
\* tool and skipped an unknown name
C28_Witness ==
    /\ ret.status = "pending_json"
    /\ Len(tool_calls) = 2
    /\ tool_calls[1].name = "schedule_meeting"
    /\ tool_calls[2] = [name |-> "crypto_api", args |-> <<>>]
    /\ history # <<>>

-----------------------------------------------------------------------------
(* Claims about the aggregation of execute_tool_calls and the chatbot      *)

KnownCall(i) == tool_calls[i].name \in ToolNames

TypeOfCall(i) == USER_TOOLS[tool_calls[i].name].type

AllStaticBatch ==
    /\ tool_calls # <<>>
    /\ \A i \in 1..Len(tool_calls) : KnownCall(i) /\ TypeOfCall(i) = "static"

\* the static text of call i: its configured literal, or its template
\* filled with the call's resolved arguments
StaticTextOf(i) ==
    static_result(USER_TOOLS[tool_calls[i].name],
                  final_args_of(USER_TOOLS[tool_calls[i].name],
                                parse_fc_args(tool_calls[i]), history)).content

BlankLine == <<"\n\n">>

\* texts[1], a blank line, texts[2], a blank line, ..., texts[n]
SeparatedByBlankLines(texts) ==
    Flatten([k \in 1..(2 * Len(texts) - 1) |->
                IF k % 2 = 1 THEN texts[(k + 1) \div 2] ELSE BlankLine])

\* C15: a batch of static calls with no required parameter missing returns
\* "static_only" with the calls' static texts in call order, one blank line
\* between consecutive texts; that text is what the chatbot prints, and no
\* prompt-tool call, no summarization call and no HTTP call is made.
C15_StaticComposed ==
    (AllStaticBatch /\ ~BatchHasMissing) =>
        /\ ret.status \in {"running", "static_only"}
        /\ aux_calls = 0
        /\ summary_calls = 0
        /\ http_calls = 0
        /\ ret.status = "static_only" =>
              ret.value = SeparatedByBlankLines(
                              [i \in 1..Len(tool_calls) |-> StaticTextOf(i)])
        /\ chat # "raised"
        /\ chat = "answered" => answer = Answer("static", ret.value)

C15_Witness ==
    /\ AllStaticBatch
    /\ ~BatchHasMissing
    /\ Len(tool_calls) = 2
    /\ tool_calls[1].name = "schedule_meeting"
    /\ tool_calls[2].name = "cloth_combination"
    /\ ret.status = "static_only"
    /\ chat = "answered"

HasRagCall ==
    \E i \in 1..Len(tool_calls) : KnownCall(i) /\ TypeOfCall(i) = "rag"

MixedBatch ==
    /\ tool_calls # <<>>
    /\ ~AllStaticBatch
    /\ ~HasRagCall
    /\ ~BatchHasMissing

\* C16: a batch with nothing missing that is not all-static and holds no
\* rag call returns "mixed" with one summary item per call, in call order,
\* and the chatbot then makes exactly one summarization call.
C16_Mixed ==
    MixedBatch =>
        /\ ret.status \in {"running", "mixed"}
        /\ ret.status = "mixed" =>
              /\ Len(ret.value) = Len(tool_calls)
              /\ \A i \in 1..Len(tool_calls) :
                    ret.value[i].name = tool_calls[i].name
        /\ chat # "waiting" => summary_calls = 1

\* a occurs in b as a run of consecutive tokens
IsSubSeq(a, b) ==
    \E k \in 0..Len(b) :
        k + Len(a) <= Len(b) /\ SubSeq(b, k + 1, k + Len(a)) = a

StaticExecuted ==
    {i \in 1..Len(tool_calls) :
        KnownCall(i) /\ TypeOfCall(i) = "static" /\ resolved[i] = "result"}

\* C17: when the chatbot has answered an all-static or a mixed batch, the
\* text of every static call of the batch stands in the printed answer as
\* it was produced.
C17_StaticNeverRewritten ==
    (chat = "answered" /\ ret.status \in {"static_only", "mixed"}) =>
        \A i \in StaticExecuted : IsSubSeq(StaticTextOf(i), answer.text)

UserTurns == {k \in 1..Len(history) : history[k].role = "user"}

\* the latest user turn as typed (not lower-cased, not the call's
\* user_query argument)
RawLastUserUtterance ==
    IF UserTurns = {} THEN <<>>
    ELSE LET k == CHOOSE m \in UserTurns : \A n \in UserTurns : n <= m
         IN Flatten(SelectSeq(history[k].parts, LAMBDA t : t # <<>>))

RagReached == InLoop /\ Complete /\ tool_def.type = "rag"

\* C18: a rag call that is reached with its required parameters resolved
\* makes execute_tool_calls return "rag_mode" in that very step, with
\* run_rag called once on the raw last user utterance; the calls after it
\* are never resolved or executed, nothing is aggregated (the value is the
\* retrieval result alone, which the chatbot prints without a
\* summarization call).
C18_RagShortCircuit ==
    /\ [][RagReached =>
            /\ ret'.status = "rag_mode"
            /\ rag_calls' = Append(rag_calls, RawLastUserUtterance)
            /\ idx' = idx]_vars
    /\ [](ret.status = "rag_mode" =>
            /\ rag_calls = <<RawLastUserUtterance>>
            /\ ret.value = <<"rag_result">>
            /\ \A j \in (idx + 1)..Len(tool_calls) : resolved[j] = "none"
            /\ summary_calls = 0
            /\ chat = "answered" => answer = Answer("rag", <<"rag_result">>))
    /\ [][ret.status = "rag_mode" =>
            UNCHANGED <<ret, resolved, http_calls, aux_calls, rag_calls,
                        summary_items, static_texts, pending_params>>]_vars

C18_Witness ==
    /\ ret.status = "rag_mode"
    /\ chat = "answered"
    /\ Len(tool_calls) = 2
    /\ idx = 1
    /\ tool_calls[2].name = "quote_api"
    /\ rag_calls = <<Words(<<"weather", "in", "Rome", "Location", "surat">>)>>

\* call i is a rag call with every required parameter resolved
ResolvableRag(i) ==
    /\ i \in 1..Len(tool_calls)
    /\ KnownCall(i)
    /\ TypeOfCall(i) = "rag"
    /\ ~CallHasMissing(tool_calls[i])

\* the calls before position k that are complete and of the given type
CompleteBefore(k, type) ==
    {i \in 1..(k - 1) : /\ KnownCall(i)
                        /\ TypeOfCall(i) = type
                        /\ ~CallHasMissing(tool_calls[i])}

\* C29: the batch result depends on where a rag call stands. When
\* execute_tool_calls returns "rag_mode" at the rag call, every call before
\* it has been resolved (skipped, reported pending, or executed with its
\* HTTP or auxiliary-model call made), and all of that is discarded: the
\* value is the retrieval result alone. A missing-parameter call followed
\* by a resolvable rag call returns "rag_mode", not "pending_json"; with
\* the rag call first, its successor is never resolved or executed.
C29_RagPosition ==
    /\ ret.status = "rag_mode"
       => /\ ResolvableRag(idx)
          /\ \A i \in 1..(idx - 1) :
                resolved[i] \in {"skipped", "pending", "replaced", "result",
                                 "error_result"}
          /\ \A i \in CompleteBefore(idx, "api") \cup CompleteBefore(idx, "prompt")
                                \cup CompleteBefore(idx, "static") :
                resolved[i] \in {"result", "error_result"}
          /\ http_calls = Cardinality(CompleteBefore(idx, "api"))
          /\ aux_calls = Cardinality(CompleteBefore(idx, "prompt"))
          /\ Len(summary_items) = Cardinality(CompleteBefore(idx, "api"))
                                  + Cardinality(CompleteBefore(idx, "prompt"))
                                  + Cardinality(CompleteBefore(idx, "static"))
          /\ DOMAIN pending_params =
                {tool_calls[i].name : i \in {j \in 1..(idx - 1) :
                                                CallHasMissing(tool_calls[j])}}
          /\ ret.value = <<"rag_result">>
          /\ \A j \in (idx + 1)..Len(tool_calls) : resolved[j] = "none"
    /\ (Len(tool_calls) = 2 /\ ~Running /\ ResolvableRag(2)
          /\ CallHasMissing(tool_calls[1]))
       => ret.status = "rag_mode" /\ DOMAIN pending_params # {}
    /\ (Len(tool_calls) = 2 /\ ~Running /\ ResolvableRag(1))
       => /\ ret.status = "rag_mode"
          /\ resolved[2] = "none"
          /\ DOMAIN pending_params = {}
          /\ http_calls = 0
          /\ aux_calls = 0

\* a call with a missing parameter, then a rag call: "rag_mode", the
\* pending entry left behind
C29_Witness ==
    /\ ret.status = "rag_mode"
    /\ Len(tool_calls) = 2
    /\ idx = 2
    /\ DOMAIN pending_params = {"crypto_api"}

\* an api call executed, then a rag call: "rag_mode", the HTTP result left
\* behind in summary_items
RagAfterHttp ==
    /\ ret.status = "rag_mode"
    /\ http_calls = 1
    /\ Len(summary_items) = 1

\* a rag call first: its successor never run
RagFirst ==
    /\ ret.status = "rag_mode"
    /\ Len(tool_calls) = 2
    /\ idx = 1
    /\ tool_calls[2].name = "crypto_api"

\* the template the dispatch of a tool fills
TemplateOf(tool) ==
    IF tool.type = "api" THEN tool.api_url ELSE tool.prompt_template

Placeholders(template) ==
    {template[i].s : i \in {j \in 1..Len(template) : template[j].ph}}

\* the call at hand is complete and goes to an api, prompt or static
\* dispatch
AtDispatch ==
    /\ InLoop
    /\ Complete
    /\ tool_def.type \in {"api", "prompt", "static"}

NamesOptional ==
    Placeholders(TemplateOf(tool_def)) \ Range(tool_def.required) # {}

\* C30: the argument map handed to an api, prompt or static dispatch has
\* exactly the tool's required parameter names, whatever else the model
\* supplied; a template that names an optional parameter is therefore not
\* filled (the dispatch raises, no request or auxiliary call is made), even
\* when the call supplies that parameter.
C30_OnlyRequiredPassed ==
    [][AtDispatch
        => /\ DOMAIN final_args = Range(tool_def.required)
           /\ \A p \in DOMAIN final_args :
                 Supplied(fc.args, p) => final_args[p] = fc.args[p]
           /\ NamesOptional
               => /\ ret'.status = "raised"
                  /\ http_calls' = http_calls
                  /\ aux_calls' = aux_calls
                  /\ summary_items' = summary_items
           /\ ~NamesOptional /\ tool_def.type = "static"
               => ret'.status = "running"]_vars

\* the model supplied the optional unit, and the url naming it was still
\* not filled
C30_Witness ==
    /\ ret.status = "raised"
    /\ tool_calls[idx].name = "units_api"
    /\ DOMAIN tool_calls[idx].args = {"location", "unit"}
    /\ http_calls = 0

-----------------------------------------------------------------------------
(* Claims about parameter resolution                                        *)

\* the lower-cased text of turn k: its text parts with one blank between
TurnText(k) ==
    LowerAll(Join(<<" ">>, SelectSeq(history[k].parts, LAMBDA t : t # <<>>)))

ParamName == LowerAll(NameText(cur_param))

\* the positions at which the lower-cased parameter name starts in a text
Occurrences(text) ==
    {i \in 1..Len(text) :
        /\ i + Len(ParamName) - 1 <= Len(text)
        /\ \A j \in 1..Len(ParamName) : text[i + j - 1] = ParamName[j]}

Min(S) == CHOOSE m \in S : \A n \in S : m <= n
Max(S) == CHOOSE m \in S : \A n \in S : n <= m

\* a text without its leading and trailing blanks
Trimmed(text) ==
    LET solid == {i \in 1..Len(text) : text[i] \notin Whitespace}
    IN IF solid = {} THEN <<>> ELSE SubSeq(text, Min(solid), Max(solid))

\* what follows the first occurrence of the name in turn k, trimmed
Remainder(k) ==
    LET text == TurnText(k)
    IN Trimmed(SubSeq(text, Min(Occurrences(text)) + Len(ParamName), Len(text)))

\* the user turns in which the name is followed by something
Yielding ==
    {k \in UserTurns : Occurrences(TurnText(k)) # {} /\ Remainder(k) # <<>>}

SpecExample ==
    <<Turn("user", <<Words(<<"weather", "in", "rome", "please", "today">>)>>)>>

\* C19: extract_value_from_history returns the trimmed, lower-cased text
\* that follows the first occurrence of the lower-cased parameter name in
\* the newest user turn that yields one; turns of the model never
\* contribute; None when no user turn yields a value (in particular when the
\* name occurs in no user turn). "please" over "weather in rome please
\* today" gives "today".
C19_ExtractValue ==
    fill_pc = "extracted" =>
        /\ auto_value =
              IF Yielding = {} THEN Called(NotFound)
              ELSE Called([found |-> TRUE, value |-> Remainder(Max(Yielding))])
        /\ (\A k \in UserTurns : Occurrences(TurnText(k)) = {}) =>
              ~auto_value.found
        /\ (cur_param = "please" /\ history = SpecExample) =>
              auto_value.value = <<"today">>

C19_Witness ==
    /\ fill_pc = "extracted"
    /\ cur_param = "Ab"
    /\ history = <<Turn("user", << <<"a", "b", " ", "a", "b", " ", "e">> >>),
                   Turn("model", << <<"c", "a", "b", " ", "d">> >>)>>
    /\ auto_value.value = <<"a", "b", " ", "e">>

\* a value the model supplied that is present and not empty
PresentNonEmpty ==
    cur_param \in DOMAIN cur_args /\ cur_args[cur_param] # <<>>

\* C20: a supplied value that is present and not empty, whatever its type
\* (0 and false included), ends up in final_args unchanged without history
\* being consulted; otherwise history is consulted and its value is used;
\* the parameter is missing only when both fail.
C20_ResolutionOrder ==
    fill_pc = "filled" =>
        IF PresentNonEmpty
        THEN /\ final_arg = cur_args[cur_param]
             /\ ~auto_value.called
             /\ ~param_missing
        ELSE /\ auto_value.called
             /\ auto_value.found => (final_arg = auto_value.value /\ ~param_missing)
             /\ ~auto_value.found => param_missing


\* ------------------------------------------------------------------
\* Unknown tool names and the None return of execute_tool_calls
\* ------------------------------------------------------------------

\* the call the loop is at names no tool of the registry
AtUnknownCall == InLoop /\ fc.name \notin DOMAIN registry

\* the positions of the batch whose call names no tool of the registry
UnknownCalls == {i \in 1..Len(tool_calls) : tool_calls[i].name \notin DOMAIN registry}

\* the iterations that executed their call, and the ones still pending
ExecutedCalls ==
    {i \in 1..Len(tool_calls) : resolved[i] \in {"result", "error_result", "rag"}}
PendingCalls == {i \in 1..Len(tool_calls) : resolved[i] = "pending"}

\* execute_tool_calls has returned (it did not raise)
HasReturned == ret.status \in ReturnStatuses

\* C31: a call whose name is not in the registry is skipped: its iteration
\* adds no summary item, no static text and no pending entry, issues no
\* request and clears all_static, so a batch holding such a call never
\* returns static_only; and execute_tool_calls returns None exactly when the
\* response has no function call or when no call of the batch was executed
\* and none is pending.
C31_UnknownSkipped ==
    /\ [][AtUnknownCall =>
            /\ summary_items' = summary_items
            /\ static_texts' = static_texts
            /\ pending_params' = pending_params
            /\ http_calls' = http_calls
            /\ aux_calls' = aux_calls
            /\ rag_calls' = rag_calls
            /\ ret' = ret
            /\ idx' = idx + 1
            /\ all_static' = FALSE]_vars
    /\ [](ret.status = "static_only" => UnknownCalls = {})
    /\ [](HasReturned =>
            (ret.status = "None" <=>
               \/ tool_calls = <<>>
               \/ ExecutedCalls = {} /\ PendingCalls = {}))

\* a batch with an unknown call and an executed static call was returned as
\* mixed, and a batch of unknown calls only was returned as None
C31_Witness ==
    /\ ret.status = "mixed"
    /\ UnknownCalls # {}
    /\ \E i \in ExecutedCalls : registry[tool_calls[i].name].type = "static"
    /\ \A i \in 1..Len(tool_calls) :
          i \in UnknownCalls \/ registry[tool_calls[i].name].type = "static"

\* a non-empty batch of unknown calls only was returned as None
NoneForUnknownOnly ==
    /\ ret.status = "None"
    /\ tool_calls # <<>>
    /\ UnknownCalls = 1..Len(tool_calls)


\* ------------------------------------------------------------------
\* The history the chatbot keeps
\* ------------------------------------------------------------------

\* the user-authored items of a history
UserItems(hist) == SelectSeq(hist, LAMBDA item : item.role = "user")

\* C32: at the start of every iteration of the chatbot loop the history
\* holds at most 5 user-started blocks, whatever outcomes the previous turns
\* took.
C32_HistoryBound ==
    loop_pc = "input" => Len(UserItems(history)) <= MaxUsers

\* the bound as the trimming branches keep it: it holds at the start of an
\* iteration whose previous turn was trimmed
TrimmedAtInput ==
    loop_pc = "input" /\ iterations >= MaxUsers + 1
      /\ Len(UserItems(history)) = MaxUsers

\* hist is what is left of whole after dropping its first items
IsSuffix(hist, whole) ==
    /\ Len(hist) <= Len(whole)
    /\ hist = SubSeq(whole, Len(whole) - Len(hist) + 1, Len(whole))

\* the result starts with a user item, or nothing was dropped: no kept
\* block lost its user item or an item of its tail
BlocksWhole(hist, whole) ==
    hist = whole \/ hist = <<>> \/ Head(hist).role = "user"

\* C33: the result of trim_history_blocks(history, N) is a contiguous
\* suffix of history in the same order, contains at most N user-authored
\* items, keeps with every user item all the non-user items that followed
\* it, and trimming the result again changes nothing.
C33_TrimSuffix ==
    /\ Len(trimmed) >= 1 =>
          /\ IsSuffix(trimmed[1], history)
          /\ Len(UserItems(trimmed[1])) <= trim_n
          /\ BlocksWhole(trimmed[1], history)
    /\ Len(trimmed) = 2 => trimmed[2] = trimmed[1]

\* the same for max_users of 1 and more
TrimFromOne ==
    trim_n >= 1 => C33_TrimSuffix

\* a history of more than N user items was cut down to N of them, N >= 1
TrimCut ==
    /\ Len(trimmed) = 2
    /\ trim_n >= 1
    /\ Len(UserItems(history)) > trim_n
    /\ Len(UserItems(trimmed[1])) = trim_n
    /\ Len(trimmed[1]) > trim_n


\* ------------------------------------------------------------------
\* Delivery of captured audio
\* ------------------------------------------------------------------

\* the frames listen_audio read with ai_speaking false and has not seen
\* written yet: queued, or held by its suspended put
CapturedWaiting ==
    {out_queue[i].id : i \in {j \in 1..Len(out_queue) : out_queue[j].mime = "audio/pcm"}}
      \cup (IF pc["listen_audio"] = "putting" THEN {held["listen_audio"].id} ELSE {})

\* the frames written to the session
WrittenIds == {sent[i].id : i \in 1..Len(sent)}

\* C34: under fair scheduling, with no task failure and no quit, every
\* frame the capture task read while ai_speaking was false is eventually
\* written to the session, and whenever playback has set ai_speaking the
\* flag eventually becomes false again.
C34_DeliveryLiveness ==
    /\ \A n \in 1..MaxMsgs : (n \in CapturedWaiting) ~> (n \in WrittenIds)
    /\ ai_speaking ~> ~ai_speaking

\* a captured frame was held by a put suspended on the full queue, and was
\* written to the session after playback had written a chunk
C34_Witness ==
    /\ \E i \in 1..Len(sent) :
          /\ sent[i].mime = "audio/pcm"
          /\ sent[i].id > OutQueueMaxsize
    /\ played # <<>>
    /\ ~ai_speaking


\* ------------------------------------------------------------------
\* The file-playback client
\* ------------------------------------------------------------------

\* C35: on every path of send_audio_file (file sent, conversion error, no
\* path given, file not found) file_sent eventually becomes true, the
\* console task eventually leaves its wait loop, and run() can terminate.
C35_FileSentEventually ==
    /\ <>file_sent
    /\ <>(text_pc # "waiting")
    /\ <>(static_run = "exited")

\* the paths through the try block do set the flag and let run() end
FileSentAndExited ==
    /\ audio_file_path \in {"undecodable", "audio"}
    /\ file_sent
    /\ static_run = "exited"

\* send_audio_file returned with the flag unset: send_text waits for ever
StuckWaiting ==
    /\ file_pc = "returned"
    /\ ~file_sent
    /\ text_pc = "waiting"


\* ------------------------------------------------------------------
\* GeneralToolsHandler.handle
\* ------------------------------------------------------------------

\* the call at hand names a tool of the handler, of the api type
GeneralKnown == gen_call.name \in DOMAIN GeneralTools
GeneralApi == GeneralKnown /\ GeneralTools[gen_call.name].type = "api"

\* the url of the tool names a placeholder the call gives no argument for
UrlUnfilled ==
    GeneralApi /\ \E i \in 1..Len(GeneralTools[gen_call.name].api_url) :
        /\ GeneralTools[gen_call.name].api_url[i].ph
        /\ GeneralTools[gen_call.name].api_url[i].s \notin DOMAIN gen_call.args

\* C36: handle never raises and always returns a result: an unknown tool
\* name and a non-api tool type give an error dictionary without a request;
\* a template-formatting failure (no request made), a transport failure
\* and a response-parsing failure inside the api call give {"error":
\* message}; and every error dictionary is sent back by the receive task as
\* the response of the call.
C36_HandleNeverRaises ==
    /\ gen_pc # "raised"
    /\ gen_pc \in {"returned", "done"} =>
          /\ ~gen_result.raised
          /\ ~GeneralKnown => gen_result.error /\ gen_result.http = 0
          /\ (GeneralKnown /\ ~GeneralApi) => gen_result.error /\ gen_result.http = 0
          /\ UrlUnfilled => gen_result.error /\ gen_result.http = 0
          /\ (GeneralApi /\ ~UrlUnfilled) =>
                /\ gen_result.http = 1
                /\ gen_result.error <=> gen_outcome \in {"transport_error", "parse_error"}
    /\ (gen_pc = "done" /\ gen_result.error) =>
          gen_responses = <<FunctionResponse(gen_call.name, gen_call.id)>>

\* a call of an api tool without the argument its url names came back as an
\* error dictionary and was sent to the session
C36_Witness ==
    /\ gen_pc = "done"
    /\ UrlUnfilled
    /\ gen_result.error
    /\ gen_result.content = <<"KeyError">>
    /\ Len(gen_responses) = 1

\* a request that succeeded with an empty JSON body: nothing is sent back
EmptyBodyNotSent ==
    /\ gen_pc = "done"
    /\ ~gen_result.error
    /\ ~gen_result.truthy
    /\ gen_responses = <<>>


\* ------------------------------------------------------------------
\* dynamic_api_call
\* ------------------------------------------------------------------

DynConfigured == dyn_call.name \in DOMAIN TOOL_ENDPOINTS
DynById ==
    DynConfigured /\ TOOL_ENDPOINTS[dyn_call.name].method = "PATCH"
      /\ TOOL_ENDPOINTS[dyn_call.name].id_field # ""
DynMissingId ==
    DynById /\ TOOL_ENDPOINTS[dyn_call.name].id_field \notin DOMAIN dyn_call.kwargs

\* a request was made and the server answered it with success
RequestSucceeded ==
    DynConfigured /\ ~DynMissingId /\ dyn_outcome = "ok"

\* the success message names only arguments the call has
MessageFillable ==
    DynConfigured /\ ~FormatRaises(TOOL_ENDPOINTS[dyn_call.name].success_message,
                                    dyn_call.kwargs)

\* C37: for every configured tool, whenever the HTTP request succeeds the
\* result has success true, the success message filled with the call's
\* argument values (the id included for PATCH tools) and the method;
\* success is false only for an unknown function, a missing id field, an
\* unsupported method or a failed request; a missing id field causes no
\* HTTP request.
C37_DynamicApiCall ==
    dyn_pc = "returned" =>
      /\ (RequestSucceeded /\ MessageFillable) =>
            /\ dyn_result.success
            /\ dyn_result.message =
                 Format(TOOL_ENDPOINTS[dyn_call.name].success_message, dyn_call.kwargs)
            /\ dyn_result.method = TOOL_ENDPOINTS[dyn_call.name].method
      /\ ~dyn_result.success =>
            \/ ~DynConfigured
            \/ DynMissingId
            \/ TOOL_ENDPOINTS[dyn_call.name].method \notin {"POST", "PATCH"}
            \/ dyn_outcome # "ok"
            \/ ~MessageFillable
      /\ DynMissingId => dyn_result.http = 0

\* the POST tools do answer a successful request with success true
PostSucceeded ==
    /\ dyn_pc = "returned"
    /\ DynConfigured /\ ~DynById
    /\ dyn_result.success

\* a PATCH call with its id whose request succeeded came back as failed
PatchReportedFailed ==
    /\ dyn_pc = "returned"
    /\ DynById /\ ~DynMissingId
    /\ dyn_outcome = "ok"
    /\ dyn_result.http = 1
    /\ ~dyn_result.success


\* ------------------------------------------------------------------
\* convert_workflow_to_user_tools: type and payload of an entry
\* ------------------------------------------------------------------

\* the descriptors converted so far whose entry is the one in user_tools
\* (a later descriptor with the same key has not replaced it)
Standing ==
    {i \in 1..(load_pos - 1) :
        \A j \in (i + 1)..(load_pos - 1) :
            tool_key_of(integrations[j]) # tool_key_of(integrations[i])}

EntryOf(i) == user_tools[tool_key_of(integrations[i])]

\* the descriptor has the field and it is not empty
Declares(d, key) ==
    /\ key \in DOMAIN d
    /\ IF key = "response_prompt" THEN d[key] # <<>> ELSE d[key] # ""

\* the type the statement gives a descriptor
StatedType(d) ==
    IF Declares(d, "type") THEN d.type
    ELSE IF Declares(d, "url") THEN "api"
    ELSE IF Declares(d, "response_text") THEN "static"
    ELSE IF Declares(d, "response_prompt") THEN "prompt"
    ELSE "static"

\* template is response_prompt with every {{name}} turned into {name} and
\* nothing else changed
Unbraced(template, response_prompt) ==
    /\ Len(template) = Len(response_prompt)
    /\ \A k \in 1..Len(template) :
          IF "braces" \in DOMAIN response_prompt[k] /\ IsWord(response_prompt[k].s)
          THEN template[k] = Ph(response_prompt[k].s)
          ELSE template[k] = response_prompt[k]

\* the names of the input parameters flagged required, in input order
RECURSIVE FlaggedRequired(_)
FlaggedRequired(params) ==
    IF params = <<>> THEN <<>>
    ELSE (IF "required" \in DOMAIN Head(params) /\ Head(params).required
          THEN <<Head(params).name>> ELSE <<>>)
           \o FlaggedRequired(Tail(params))

\* C38: an explicit type is kept; with no type a url gives api, else a
\* response_text gives static, else a response_prompt gives prompt, else
\* static; every {{name}} of a prompt or templated-static response_prompt
\* becomes {name}; a static descriptor with response_text keeps the literal
\* and gets no template; the required list is, in order, the input
\* parameters flagged required.
C38_TypeAndPayload ==
    \A i \in Standing :
      LET d == integrations[i]
          e == EntryOf(i)
      IN /\ e.type = StatedType(d)
         /\ e.type = "prompt" =>
               Unbraced(e.prompt_template, Get(d, "response_prompt", <<>>))
         /\ (e.type = "static" /\ "response_text" \in DOMAIN d) =>
               /\ e.response_text = d.response_text
               /\ "prompt_template" \notin DOMAIN e
         /\ (e.type = "static" /\ "response_text" \notin DOMAIN d
               /\ "response_prompt" \in DOMAIN d) =>
               Unbraced(e.prompt_template, d.response_prompt)
         /\ Get(e.parameters, "required", <<>>)
               = FlaggedRequired(Get(d, "input_parameters", <<>>))

\* a configuration was loaded that holds a descriptor of a declared type
\* next to a url, and a templated static descriptor with two required
\* parameters and an optional one between them
C38_Witness ==
    /\ load_state = "loaded"
    /\ \E i \in Standing :
          /\ Declares(integrations[i], "url")
          /\ EntryOf(i).type = "rag"
    /\ \E i \in Standing :
          /\ EntryOf(i).type = "static"
          /\ "prompt_template" \in DOMAIN EntryOf(i)
          /\ Get(EntryOf(i).parameters, "required", <<>>)
                = <<"attendee_email", "duration_minutes">>

-----------------------------------------------------------------------------
(* Claims about EnhancedVoiceDetector                                      *)

\* the numbers of the chunks heard that were classified as speech
SpeechChunks == {i \in 1..Len(heard) : heard[i].speech}

\* the chunks from the first speech chunk on, in the order read
FromFirstSpeech ==
    IF SpeechChunks = {} THEN <<>>
    ELSE LET first == CHOOSE i \in SpeechChunks :
                          \A j \in SpeechChunks : i <= j
         IN [k \in 1..(Len(heard) - first + 1) |-> first + k - 1]

\* chunk i is silent and was read at least SilenceDuration after the last
\* speech chunk before it
SilentLongEnough(i) ==
    /\ ~heard[i].speech
    /\ \E j \in SpeechChunks :
          /\ j < i
          /\ \A k \in SpeechChunks : k < i => k <= j
          /\ heard[i].at - heard[j].at >= SilenceDuration

\* C39: no chunk is buffered before the first chunk classified as speech
\* and from that chunk on every chunk read, speech or silence, is buffered;
\* the loop is left by the silence branch exactly when the chunk just read
\* is silent and comes at least silence_duration after the last speech
\* chunk, so never before any speech; while the loop runs no such chunk has
\* been read.
C39_RecordingStateMachine ==
    /\ audio_frames = FromFirstSpeech
    /\ speech_detected <=> SpeechChunks # {}
    /\ auto_stopped <=> (heard # <<>> /\ SilentLongEnough(Len(heard)))
    /\ auto_stopped => SpeechChunks # {} /\ ~is_recording
    /\ \A i \in 1..Len(heard) :
          SilentLongEnough(i) => i = Len(heard) /\ auto_stopped
    /\ vad_pc = "loop" => is_recording /\ ~auto_stopped

\* silence, then speech, then a short silence that is buffered, then a
\* silence that has lasted long enough: the recording stopped by itself
C39_Witness ==
    /\ auto_stopped
    /\ Len(heard) >= 4
    /\ ~heard[1].speech
    /\ Len(audio_frames) >= 3
    /\ Len(audio_frames) < Len(heard)

\* the calls made on the stream once it has been closed
AfterClose ==
    IF \E i \in 1..Len(stream_calls) : stream_calls[i] = "close"
    THEN LET first == CHOOSE i \in 1..Len(stream_calls) :
                          /\ stream_calls[i] = "close"
                          /\ \A j \in 1..(i - 1) : stream_calls[j] # "close"
         IN SubSeq(stream_calls, first + 1, Len(stream_calls))
    ELSE <<>>

CallCount(name) ==
    Cardinality({i \in 1..Len(stream_calls) : stream_calls[i] = name})

\* C40: over a run of main() the capture stream is never stopped or closed
\* again after it has been closed, and once cleanup has run after an
\* auto-stop or a keyboard interrupt it has been stopped and closed exactly
\* once.
C40_StreamLifecycle ==
    /\ AfterClose = <<>>
    /\ (vad_pc = "cleaned" /\ ~is_recording /\ vad_stream # "None")
          => CallCount("stop_stream") = 1 /\ CallCount("close") = 1

\* cleanup after an auto-stop: the stream closed by stop_recording is
\* stopped and closed a second time
StoppedAndClosedTwice ==
    /\ vad_pc = "cleaned"
    /\ auto_stopped
    /\ stream_calls = <<"open", "stop_stream", "close", "stop_stream", "close">>

\* cleanup after a failed read is the one path on which the stream is
\* stopped and closed once
ClosedOnceAfterFailedRead ==
    /\ vad_pc = "cleaned"
    /\ is_recording
    /\ stream_calls = <<"open", "stop_stream", "close">>

=============================================================================
